---- MODULE Spec2Model ----
(***************************************************************************)
(* clearphone: the configuration workflow (core/workflow.py) and the       *)
(* components it drives (core/profile.py, core/apps_catalog.py,            *)
(* core/remover.py, core/downloader.py, core/installer.py, core/adb.py).   *)
(*                                                                         *)
(* ConfigurationWorkflow.execute is a generator.  One action of this       *)
(* module is one next() of its caller: the code that runs from the yield   *)
(* the generator is suspended at to the next yield (or to its return).     *)
(* pc names the yield the generator is suspended at, events is the stream  *)
(* the caller has received so far, calls is the log of the calls made on   *)
(* the collaborators (device transport, loaders, callbacks).               *)
(***************************************************************************)
EXTENDS Integers, Sequences, FiniteSets, TLC

\* ------------------------------------------------------------------ bounds

\* Longest package list of a profile.
MaxPkgs == 2

\* Chunks every downloaded file arrives in.
FileChunks == 1

\* Most failures (a failed or raising transport call, download, index fetch
\* or callback) the collaborators produce in one run.
MaxFaults == 1

\* ------------------------------------------------------------ data shapes

\* PackageToRemove.conditional is None.
NONE == "<None>"

PackageToRemove(id, action, conditional) ==
    [id |-> id, action |-> action, conditional |-> conditional]

AppDefinition(id, package_id, source, installation_priority) ==
    [id |-> id, package_id |-> package_id, source |-> source,
     installation_priority |-> installation_priority]

KNOX_PROTECTED_PACKAGES ==
    { "com.samsung.android.knox.analytics.uploader",
      "com.samsung.android.knox.attestation",
      "com.samsung.android.knox.containeragent",
      "com.samsung.android.knox.containercore",
      "com.samsung.android.knox.kpecore",
      "com.samsung.android.knox.pushmanager",
      "com.samsung.knox.securefolder",
      "com.sec.enterprise.knox.attestation",
      "com.sec.enterprise.knox.cloudmdm.smdms",
      "com.sec.knox.switcher",
      "com.samsung.android.providers.context",
      "com.samsung.android.service.livedrawing" }

\* The exception a collaborator or a phase raises: its class and str(e).
Exc(cls, str) == [cls |-> cls, str |-> str]

\* Event: its type and the payload fields the workflow's consumers read.
Event(type) ==
    [type |-> type, phase_number |-> 0, id |-> "", user_choice |-> "",
     free |-> <<>>, non_free |-> <<>>, message |-> <<>>]

\* The ids of a list of definitions ([a.id for a in apps]) or of packages.
Ids(defs) == [i \in 1..Len(defs) |-> defs[i].id]

\* key in dict, for a dict held as the list of its values in insertion order.
HasId(defs, id) == \E i \in 1..Len(defs) : defs[i].id = id

\* dict[key].
ById(defs, id) == defs[CHOOSE i \in 1..Len(defs) : defs[i].id = id]

\* The elements of a list.
Range(s) == { s[i] : i \in 1..Len(s) }

\* The sublists of list s (its elements in their order) of at most n elements.
SubListsUpTo(s, n) ==
    { SelectSeq([i \in 1..Len(s) |-> <<i, s[i]>>], LAMBDA x : x[1] \in I)
        : I \in { J \in SUBSET (1..Len(s)) : Cardinality(J) <= n } }

\* The second components of a list of pairs.
Seconds(s) == [i \in 1..Len(s) |-> s[i][2]]

\* ------------------------------------------------------------------ inputs

BIXBY == "com.samsung.android.bixby.agent"
FACEBOOK == "com.facebook.katana"
STOCK_CAMERA == "com.sec.android.app.camera"
SECURE_FOLDER == "com.samsung.knox.securefolder"

\* The [[packages]] entries profiles are made of, in file order.
PackageEntries ==
    << PackageToRemove(BIXBY, "remove", NONE),
       PackageToRemove(FACEBOOK, "remove", NONE),
       PackageToRemove(SECURE_FOLDER, "remove", NONE),
       PackageToRemove(STOCK_CAMERA, "remove", "camera"),
       PackageToRemove(STOCK_CAMERA, "disable", "camera") >>

\* What pm list packages reports on the connected device.
DeviceInstalled == { BIXBY, SECURE_FOLDER, STOCK_CAMERA }

\* The [apps] sections of profiles: (extras_free, extras_non_free).
ProfileExtras ==
    { << <<"weather">>, <<>> >>,
      << <<"ghost">>, <<>> >>,
      << <<>>, <<"weather">> >> }

MODEL_PATTERN == "SM-S921*"

Profiles ==
    { [model_pattern |-> MODEL_PATTERN,
       extras_free |-> x[1], extras_non_free |-> x[2], packages |-> p] :
         x \in ProfileExtras,
         p \in { Seconds(l) : l \in SubListsUpTo(PackageEntries, MaxPkgs) } }

LAUNCHER == AppDefinition("launcher", "app.olauncher", "fdroid", 5)
DIALER == AppDefinition("dialer", "org.fossify.phone", "direct", 1)
CAMERA == AppDefinition("camera", "org.fossify.camera", "fdroid", 50)
WEATHER == AppDefinition("weather", "org.breezyweather", "fdroid", 50)
SIGNAL == AppDefinition("signal", "org.thoughtcrime.securesms", "direct", 50)

\* The catalogs: core.toml, extras/free.toml, extras/non-free.toml.
Catalogs ==
    { [core_apps |-> <<LAUNCHER, DIALER>>, extras_free |-> f,
       extras_non_free |-> <<SIGNAL>>] :
         f \in { <<WEATHER>>, <<CAMERA, WEATHER>> } }

\* The models a connected device reports.
DeviceModels == { "SM-S921U", "SM-S911U" }

\* fnmatch.fnmatch(model, pattern) on the models and patterns above.
FnMatch(model, pattern) ==
    <<model, pattern>> \in { <<"SM-S921U", "SM-S921*">> }

\* What a camera callback returns.
CameraCallbackReturns == { "stock", "fossify", "replacement" }

\* What an extras callback returns: (selected_free, selected_non_free).
ExtrasCallbackReturns ==
    { << <<>>, <<>> >>,
      << <<"weather">>, <<"signal">> >>,
      << <<"camera">>, <<>> >>,
      << <<"ghost">>, <<>> >> }

\* ------------------------------------------------------------------ state

VARIABLES
    pc,        \* the yield execute is suspended at: <<function, label>>
    events,    \* the events yielded to the caller so far
    calls,     \* the calls made on loaders, transport, downloader, callbacks
    config,    \* WorkflowConfig and the two callbacks of __init__
    profile,   \* self._profile
    catalog,   \* self._catalog
    adb,       \* self._adb
    choices,   \* self.choices (UserChoices)
    result,    \* self.result (WorkflowResult)
    returned,  \* the value execute returned (StopIteration.value)
    remover,   \* the PackageRemover of phase 7 and its generator's locals
    p8,        \* the locals of _phase_download_and_install and its generators
    faults,    \* the failures the collaborators produced so far, in order
    raised     \* the exception that was raised into execute, if any

vars == <<pc, events, calls, config, profile, catalog, adb, choices, result,
          returned, remover, p8, faults, raised>>

TOTAL_PHASES == 8

\* UserChoices().
UserChoices ==
    [camera_choice |-> "", selected_extras_free |-> <<>>,
     selected_extras_non_free |-> <<>>]

\* WorkflowResult().
WorkflowResult ==
    [packages_removed |-> 0, packages_skipped |-> 0, packages_failed |-> 0,
     apps_installed |-> 0, apps_failed |-> 0, success |-> TRUE,
     error_message |-> <<>>]

\* self._profile / self._catalog / self._adb before they are set.
NoProfile ==
    [loaded |-> FALSE, model_pattern |-> "", extras_free |-> <<>>,
     extras_non_free |-> <<>>, packages |-> <<>>]

NoCatalog ==
    [loaded |-> FALSE, core_apps |-> <<>>, extras_free |-> <<>>,
     extras_non_free |-> <<>>]

\* mock tells a MagicMock transport, as the unit tests build it, from the
\* ADBDevice the workflow creates; packages is what list_packages returns.
NoADB ==
    [created |-> FALSE, connected |-> FALSE, model |-> "", mock |-> FALSE,
     packages |-> {}]

\* The local `result` of a generator before a transport call bound it; it is
\* not read before that.
NoResult == [returncode |-> -1, stdout |-> ""]

\* caller is the frame that iterates the generator: phase 7 of the workflow,
\* or a direct caller of remove_packages.
NoRemover ==
    [packages |-> <<>>, installed |-> {}, i |-> 0,
     removed |-> 0, skipped |-> 0, failed |-> 0, result |-> NoResult,
     caller |-> "workflow", installed_packages |-> <<>>]

NoP8 ==
    [apps_to_install |-> <<>>, downloaded |-> <<>>, j |-> 0,
     index_fetched |-> FALSE, chunks |-> 0, k |-> 0, installed |-> 0,
     failed |-> 0, default_apps |-> <<>>, r |-> 0, result |-> NoResult,
     caller |-> "workflow"]

NoException == [cls |-> NONE, str |-> <<>>]

\* ConfigurationWorkflow.__init__, for every WorkflowConfig and callbacks.
Init ==
    /\ pc = <<"execute", "not_started">>
    /\ events = <<>>
    /\ calls = <<>>
    /\ config \in [dry_run : BOOLEAN, non_interactive : BOOLEAN,
                   camera_choice_callback : BOOLEAN,
                   extras_choice_callback : BOOLEAN]
    /\ profile = NoProfile
    /\ catalog = NoCatalog
    /\ adb = NoADB
    /\ choices = UserChoices
    /\ result = WorkflowResult
    /\ returned = [done |-> FALSE]
    /\ remover = NoRemover
    /\ p8 = NoP8
    /\ faults = <<>>
    /\ raised = NoException

\* ------------------------------------------------------- execute's frame

\* A call of a collaborator: its argument or, for a callback, what it returned
\* (NONE or the empty tuple when it raised).
Call(op, arg) == [op |-> op, arg |-> arg]

\* A collaborator (callback, transport, network) fails with the given kind.
Fault(kind) ==
    /\ Len(faults) < MaxFaults \/ adb.mock
    /\ faults' = Append(faults, kind)

\* yield e, the generator then being suspended at `at`; nothing was raised.
Yield(e, at) ==
    /\ events' = Append(events, e)
    /\ pc' = at
    /\ UNCHANGED raised

\* _emit_phase(phase_num, name, started).
EmitPhase(phase_num, started) ==
    [Event(IF started THEN "PHASE_STARTED" ELSE "PHASE_COMPLETED") EXCEPT
        !.phase_number = phase_num]

\* Fault injection: the camera choice is run before the device is validated.
ExecuteOrderCameraFirst ==
    << "_phase_load_profile", "_phase_load_catalog", "_phase_connect_device",
       "_phase_camera_choice", "_phase_validate_device",
       "_phase_extras_selection", "_phase_remove_packages",
       "_phase_download_and_install" >>

\* Fault injection: the apps are downloaded and installed before the
\* packages are removed.
ExecuteOrderInstallFirst ==
    << "_phase_load_profile", "_phase_load_catalog", "_phase_connect_device",
       "_phase_validate_device", "_phase_camera_choice",
       "_phase_extras_selection", "_phase_download_and_install",
       "_phase_remove_packages" >>

\* The phases in the order execute runs them (yield from ...).
ExecuteOrder ==
    << "_phase_load_profile", "_phase_load_catalog", "_phase_connect_device",
       "_phase_validate_device", "_phase_camera_choice",
       "_phase_extras_selection", "_phase_remove_packages",
       "_phase_download_and_install" >>

\* The phase number each phase function passes to _emit_phase.
PhaseNumber(f) ==
    CASE f = "_phase_load_profile" -> 1
      [] f = "_phase_load_catalog" -> 2
      [] f = "_phase_connect_device" -> 3
      [] f = "_phase_validate_device" -> 4
      [] f = "_phase_camera_choice" -> 5
      [] f = "_phase_extras_selection" -> 6
      [] f = "_phase_remove_packages" -> 7
      [] f = "_phase_download_and_install" -> 8

\* isinstance(e, Exception): KeyboardInterrupt, SystemExit and GeneratorExit
\* derive from BaseException only.
IsException(e) == e.cls \notin { "KeyboardInterrupt", "SystemExit", "GeneratorExit" }

\* isinstance(e, CriticalConfigurationError).
IsCritical(e) == e.cls = "CriticalConfigurationError"

\* Fault injection: execute without its catch-all clause, so that only a
\* CriticalConfigurationError is turned into WORKFLOW_FAILED.
RaiseFromCriticalOnly(res, e) ==
    /\ raised' = e
    /\ IF IsCritical(e)
       THEN /\ result' = [res EXCEPT !.success = FALSE,
                                     !.error_message = e.str]
            /\ events' = Append(events,
                    [Event("WORKFLOW_FAILED") EXCEPT !.message = e.str])
            /\ pc' = <<"execute", "WORKFLOW_FAILED">>
       ELSE /\ result' = res
            /\ UNCHANGED events
            /\ pc' = <<"execute", "propagated">>

\* Fault injection: an error that is not a CriticalConfigurationError is
\* swallowed inside its phase, which reports PHASE_COMPLETED and goes on.
RaiseFromSwallowing(res, e) ==
    /\ raised' = e
    /\ IF IsCritical(e)
       THEN /\ result' = [res EXCEPT !.success = FALSE,
                                     !.error_message = e.str]
            /\ events' = Append(events,
                    [Event("WORKFLOW_FAILED") EXCEPT !.message = e.str])
            /\ pc' = <<"execute", "WORKFLOW_FAILED">>
       ELSE LET started == { i \in DOMAIN events :
                                events[i].type = "PHASE_STARTED" }
                last == CHOOSE i \in started : \A k \in started : k <= i
                n == events[last].phase_number
            IN /\ result' = res
               /\ events' = Append(events, EmitPhase(n, FALSE))
               /\ pc' = <<ExecuteOrder[n], "PHASE_COMPLETED">>

\* e is raised in a phase while self.result is res. The two except clauses
\* of execute mark the result failed and yield WORKFLOW_FAILED; what is not an
\* Exception passes them and leaves the generator.
RaiseFrom(res, e) ==
    /\ raised' = e
    /\ IF IsException(e)
       THEN /\ result' = [res EXCEPT !.success = FALSE,
                                     !.error_message = e.str]
            /\ events' = Append(events,
                    [Event("WORKFLOW_FAILED") EXCEPT
                        !.message = IF IsCritical(e) THEN e.str
                                    ELSE <<"Unexpected error: ">> \o e.str])
            /\ pc' = <<"execute", "WORKFLOW_FAILED">>
       ELSE /\ result' = res
            /\ UNCHANGED events
            /\ pc' = <<"execute", "propagated">>

\* An exception raised while self.result is as the variable holds it.
Raise(e) == RaiseFrom(result, e)

\* The first statement of every phase function: yield PHASE_STARTED.
EnterPhase(f) == Yield(EmitPhase(PhaseNumber(f), TRUE), <<f, "PHASE_STARTED">>)

\* The last statement of a phase function: yield PHASE_COMPLETED.
CompletePhase(f) ==
    Yield(EmitPhase(PhaseNumber(f), FALSE), <<f, "PHASE_COMPLETED">>)

\* next() on a fresh generator: yield WORKFLOW_STARTED.
Start ==
    /\ pc = <<"execute", "not_started">>
    /\ Yield(Event("WORKFLOW_STARTED"), <<"execute", "WORKFLOW_STARTED">>)
    /\ UNCHANGED <<calls, config, profile, catalog, adb, choices, result,
                   returned, remover, p8, faults>>

\* Resumed after WORKFLOW_STARTED: the try block enters the first phase.
EnterFirstPhase ==
    /\ pc = <<"execute", "WORKFLOW_STARTED">>
    /\ EnterPhase(ExecuteOrder[1])
    /\ UNCHANGED <<calls, config, profile, catalog, adb, choices, result,
                   returned, remover, p8, faults>>

\* Fault injection: execute reports completion one phase early.
PhaseReturnEarly ==
    /\ pc[2] = "PHASE_COMPLETED"
    /\ LET n == CHOOSE i \in 1..Len(ExecuteOrder) : ExecuteOrder[i] = pc[1]
       IN IF n < Len(ExecuteOrder) - 1
          THEN /\ EnterPhase(ExecuteOrder[n + 1])
               /\ UNCHANGED result
          ELSE /\ result' = [result EXCEPT !.success = TRUE]
               /\ Yield(Event("WORKFLOW_COMPLETED"),
                        <<"execute", "WORKFLOW_COMPLETED">>)
    /\ UNCHANGED <<calls, config, profile, catalog, adb, choices, returned,
                   remover, p8, faults>>

\* Resumed after a PHASE_COMPLETED: the phase function returns and execute
\* enters the next phase, or after the last one marks the result successful
\* and yields WORKFLOW_COMPLETED.
PhaseReturn ==
    /\ pc[2] = "PHASE_COMPLETED"
    /\ LET n == CHOOSE i \in 1..Len(ExecuteOrder) : ExecuteOrder[i] = pc[1]
       IN IF n < Len(ExecuteOrder)
          THEN /\ EnterPhase(ExecuteOrder[n + 1])
               /\ UNCHANGED result
          ELSE /\ result' = [result EXCEPT !.success = TRUE]
               /\ Yield(Event("WORKFLOW_COMPLETED"),
                        <<"execute", "WORKFLOW_COMPLETED">>)
    /\ UNCHANGED <<calls, config, profile, catalog, adb, choices, returned,
                   remover, p8, faults>>

\* Resumed after WORKFLOW_COMPLETED or WORKFLOW_FAILED: return self.result.
Return ==
    /\ pc \in { <<"execute", "WORKFLOW_COMPLETED">>,
                <<"execute", "WORKFLOW_FAILED">> }
    /\ returned' = [done |-> TRUE, value |-> result]
    /\ pc' = <<"execute", "returned">>
    /\ UNCHANGED <<events, calls, config, profile, catalog, adb, choices,
                   result, remover, p8, faults, raised>>

\* ---------------------------------------------------------- phases 1 to 4

\* What load_profile raises.
LoadProfileErrors ==
    { Exc("ProfileNotFoundError", <<"Profile not found">>),
      Exc("ProfileParseError", <<"Failed to parse profile">>) }

\* Phase 1, resumed after PHASE_STARTED: load_profile, then PHASE_COMPLETED.
PhaseLoadProfile ==
    /\ pc = <<"_phase_load_profile", "PHASE_STARTED">>
    /\ calls' = Append(calls, Call("load_profile", ""))
    /\ \/ \E e \in LoadProfileErrors :
            /\ Raise(e)
            /\ UNCHANGED profile
       \/ \E p \in Profiles :
            /\ profile' = [loaded |-> TRUE, model_pattern |-> p.model_pattern,
                           extras_free |-> p.extras_free,
                           extras_non_free |-> p.extras_non_free,
                           packages |-> p.packages]
            /\ CompletePhase("_phase_load_profile")
            /\ UNCHANGED result
    /\ UNCHANGED <<config, catalog, adb, choices, returned, remover, p8,
                   faults>>

\* What load_apps_catalog raises.
LoadCatalogErrors ==
    { Exc("CatalogNotFoundError", <<"Apps catalog not found">>),
      Exc("CatalogParseError", <<"Failed to parse catalog">>) }

\* Fault injection: an extras id is accepted when any extras partition of the
\* catalog declares it.
ValidateProfileAppsAnyPartition(p, c) ==
    LET all == c.extras_free \o c.extras_non_free
        bad(ids, file) ==
            LET missing == SelectSeq(ids, LAMBDA id : ~HasId(all, id))
            IN [i \in 1..Len(missing) |-> <<missing[i], file>>]
    IN bad(p.extras_free, "extras/free.toml")
       \o bad(p.extras_non_free, "extras/non-free.toml")

\* validate_profile_apps: one error per extras id of the profile that is not
\* declared in the matching partition of the catalog.
ValidateProfileApps(p, c) ==
    LET bad(ids, defs, file) ==
            LET missing == SelectSeq(ids, LAMBDA id : ~HasId(defs, id))
            IN [i \in 1..Len(missing) |-> <<missing[i], file>>]
    IN bad(p.extras_free, c.extras_free, "extras/free.toml")
       \o bad(p.extras_non_free, c.extras_non_free, "extras/non-free.toml")

\* "Profile validation failed:\n" + "\n".join(...).
ValidationMessage(errors) ==
    <<"Profile validation failed:">>
    \o [i \in 1..(2 * Len(errors)) |-> errors[(i + 1) \div 2][2 - (i % 2)]]

\* Phase 2, resumed after PHASE_STARTED: load_apps_catalog, validate the
\* profile's extras against it, then PHASE_COMPLETED.
PhaseLoadCatalog ==
    /\ pc = <<"_phase_load_catalog", "PHASE_STARTED">>
    /\ calls' = Append(calls, Call("load_apps_catalog", ""))
    /\ \/ \E e \in LoadCatalogErrors :
            /\ Raise(e)
            /\ UNCHANGED catalog
       \/ \E c \in Catalogs :
            /\ catalog' = [loaded |-> TRUE, core_apps |-> c.core_apps,
                           extras_free |-> c.extras_free,
                           extras_non_free |-> c.extras_non_free]
            /\ LET errors == ValidateProfileApps(profile, c)
               IN IF errors # <<>>
                  THEN Raise(Exc("CriticalConfigurationError",
                                 ValidationMessage(errors)))
                  ELSE /\ CompletePhase("_phase_load_catalog")
                       /\ UNCHANGED result
    /\ UNCHANGED <<config, profile, adb, choices, returned, remover, p8,
                   faults>>

\* What ADBDevice.connect raises.
ConnectErrors ==
    { Exc("NoDeviceConnectedError", <<"No device connected">>),
      Exc("DeviceAuthenticationError", <<"Device authentication failed">>),
      Exc("Exception", <<"connect failed">>) }

\* Phase 3, resumed after PHASE_STARTED: ADBDevice().connect(), then
\* DEVICE_CONNECTED.
PhaseConnectDevice ==
    /\ pc = <<"_phase_connect_device", "PHASE_STARTED">>
    /\ calls' = Append(calls, Call("connect", ""))
    /\ \/ \E e \in ConnectErrors :
            /\ Raise(e)
            /\ adb' = [NoADB EXCEPT !.created = TRUE]
       \/ \E m \in DeviceModels :
            /\ adb' = [NoADB EXCEPT !.created = TRUE, !.connected = TRUE,
                                    !.model = m,
                                    !.packages = DeviceInstalled]
            /\ Yield([Event("DEVICE_CONNECTED") EXCEPT !.id = m],
                     <<"_phase_connect_device", "DEVICE_CONNECTED">>)
            /\ UNCHANGED result
    /\ UNCHANGED <<config, profile, catalog, choices, returned, remover, p8,
                   faults>>

\* Phase 3, resumed after DEVICE_CONNECTED: PHASE_COMPLETED.
PhaseConnectDeviceDone ==
    /\ pc = <<"_phase_connect_device", "DEVICE_CONNECTED">>
    /\ CompletePhase("_phase_connect_device")
    /\ UNCHANGED <<calls, config, profile, catalog, adb, choices, result,
                   returned, remover, p8, faults>>

\* Fault injection: every model is accepted.
ValidateDeviceModelAny(pattern) == pattern = pattern

\* ADBDevice.validate_device_model(pattern).
ValidateDeviceModel(pattern) == FnMatch(adb.model, pattern)

\* Phase 4, resumed after PHASE_STARTED: a model that does not match the
\* profile's pattern raises DeviceMismatchError, else DEVICE_VALIDATED.
PhaseValidateDevice ==
    /\ pc = <<"_phase_validate_device", "PHASE_STARTED">>
    /\ IF ~ValidateDeviceModel(profile.model_pattern)
       THEN Raise(Exc("DeviceMismatchError", <<"Wrong device model">>))
       ELSE /\ Yield([Event("DEVICE_VALIDATED") EXCEPT !.id = adb.model],
                     <<"_phase_validate_device", "DEVICE_VALIDATED">>)
            /\ UNCHANGED result
    /\ UNCHANGED <<calls, config, profile, catalog, adb, choices, returned,
                   remover, p8, faults>>

\* Fault injection: phase 4 presets the camera choice.
PhaseValidateDeviceDonePresetting ==
    /\ pc = <<"_phase_validate_device", "DEVICE_VALIDATED">>
    /\ choices' = [choices EXCEPT !.camera_choice = "stock"]
    /\ CompletePhase("_phase_validate_device")
    /\ UNCHANGED <<calls, config, profile, catalog, adb, result, returned,
                   remover, p8, faults>>

\* Phase 4, resumed after DEVICE_VALIDATED: PHASE_COMPLETED.
PhaseValidateDeviceDone ==
    /\ pc = <<"_phase_validate_device", "DEVICE_VALIDATED">>
    /\ CompletePhase("_phase_validate_device")
    /\ UNCHANGED <<calls, config, profile, catalog, adb, choices, result,
                   returned, remover, p8, faults>>

\* ---------------------------------------------------------- phases 5 and 6

\* DeviceProfile.has_camera_choice.
HasCameraChoice(p) ==
    \E i \in 1..Len(p.packages) : p.packages[i].conditional = "camera"

\* DeviceProfile.get_stock_camera_package: the first package tagged "camera"
\* (a list of one package, or the empty list for None).
GetStockCameraPackage(p) ==
    LET tagged == SelectSeq(p.packages, LAMBDA pkg : pkg.conditional = "camera")
    IN IF tagged = <<>> THEN <<>> ELSE <<Head(tagged)>>

\* Fault injection: a profile without a camera-conditional package gets the
\* default camera choice before the phase completes.
PhaseCameraChoiceDefaulting ==
    /\ pc = <<"_phase_camera_choice", "PHASE_STARTED">>
    /\ LET stock_camera == GetStockCameraPackage(profile)
       IN IF stock_camera = <<>>
          THEN /\ choices' = [choices EXCEPT !.camera_choice = "stock"]
               /\ CompletePhase("_phase_camera_choice")
          ELSE /\ UNCHANGED choices
               /\ Yield([Event("CAMERA_CHOICE_REQUIRED") EXCEPT
                            !.id = stock_camera[1].id],
                        <<"_phase_camera_choice", "CAMERA_CHOICE_REQUIRED">>)
    /\ UNCHANGED <<calls, config, profile, catalog, adb, result, returned,
                   remover, p8, faults>>

\* Phase 5, resumed after PHASE_STARTED: without a camera-conditional package
\* the phase completes at once, else CAMERA_CHOICE_REQUIRED.
PhaseCameraChoice ==
    /\ pc = <<"_phase_camera_choice", "PHASE_STARTED">>
    /\ IF ~HasCameraChoice(profile)
       THEN CompletePhase("_phase_camera_choice")
       ELSE LET stock_camera == GetStockCameraPackage(profile)
            IN IF stock_camera = <<>>
               THEN CompletePhase("_phase_camera_choice")
               ELSE Yield([Event("CAMERA_CHOICE_REQUIRED") EXCEPT
                              !.id = stock_camera[1].id],
                          <<"_phase_camera_choice", "CAMERA_CHOICE_REQUIRED">>)
    /\ UNCHANGED <<calls, config, profile, catalog, adb, choices, result,
                   returned, remover, p8, faults>>

\* What a caller-supplied callback raises.
CallbackErrors ==
    { Exc("ValueError", <<"callback failed">>),
      Exc("KeyboardInterrupt", <<>>) }

\* Fault injection: a supplied callback is asked before non_interactive is
\* looked at.
CameraChoiceSourceCallbackFirst ==
    IF config.camera_choice_callback THEN "callback" ELSE "default"

\* The if / elif / else of phase 5: where the camera choice comes from.
CameraChoiceSource ==
    IF config.non_interactive THEN "default"
    ELSE IF config.camera_choice_callback THEN "callback"
    ELSE "default"

CameraChoiceMade(choice) ==
    [Event("CAMERA_CHOICE_MADE") EXCEPT
        !.id = GetStockCameraPackage(profile)[1].id, !.user_choice = choice]

\* Phase 5, resumed after CAMERA_CHOICE_REQUIRED: the choice is resolved and
\* CAMERA_CHOICE_MADE is yielded; a callback may raise.
PhaseCameraChoiceResolve ==
    /\ pc = <<"_phase_camera_choice", "CAMERA_CHOICE_REQUIRED">>
    /\ IF CameraChoiceSource = "callback"
       THEN \/ \E v \in CameraCallbackReturns :
                 /\ calls' = Append(calls, Call("camera_choice_callback", v))
                 /\ choices' = [choices EXCEPT !.camera_choice = v]
                 /\ Yield(CameraChoiceMade(v),
                          <<"_phase_camera_choice", "CAMERA_CHOICE_MADE">>)
                 /\ UNCHANGED <<result, faults>>
            \/ /\ Fault("callback_raised")
               /\ calls' = Append(calls, Call("camera_choice_callback", NONE))
               /\ \E e \in CallbackErrors : Raise(e)
               /\ UNCHANGED choices
       ELSE /\ choices' = [choices EXCEPT !.camera_choice = "stock"]
            /\ Yield(CameraChoiceMade("stock"),
                     <<"_phase_camera_choice", "CAMERA_CHOICE_MADE">>)
            /\ UNCHANGED <<calls, result, faults>>
    /\ UNCHANGED <<config, profile, catalog, adb, returned, remover, p8>>

\* Fault injection: the camera callback is asked once more after
\* CAMERA_CHOICE_MADE.
PhaseCameraChoiceDoneAsking ==
    /\ pc = <<"_phase_camera_choice", "CAMERA_CHOICE_MADE">>
    /\ calls' = IF CameraChoiceSource = "callback"
                THEN Append(calls, Call("camera_choice_callback",
                                        choices.camera_choice))
                ELSE calls
    /\ CompletePhase("_phase_camera_choice")
    /\ UNCHANGED <<config, profile, catalog, adb, choices, result, returned,
                   remover, p8, faults>>

\* Phase 5, resumed after CAMERA_CHOICE_MADE: PHASE_COMPLETED.
PhaseCameraChoiceDone ==
    /\ pc = <<"_phase_camera_choice", "CAMERA_CHOICE_MADE">>
    /\ CompletePhase("_phase_camera_choice")
    /\ UNCHANGED <<calls, config, profile, catalog, adb, choices, result,
                   returned, remover, p8, faults>>

\* Phase 6, resumed after PHASE_STARTED: EXTRAS_SELECTION_REQUIRED naming the
\* available extras.
PhaseExtrasSelection ==
    /\ pc = <<"_phase_extras_selection", "PHASE_STARTED">>
    /\ Yield([Event("EXTRAS_SELECTION_REQUIRED") EXCEPT
                 !.free = Ids(catalog.extras_free),
                 !.non_free = Ids(catalog.extras_non_free)],
             <<"_phase_extras_selection", "EXTRAS_SELECTION_REQUIRED">>)
    /\ UNCHANGED <<calls, config, profile, catalog, adb, choices, result,
                   returned, remover, p8, faults>>

\* Fault injection: a supplied callback is asked before non_interactive is
\* looked at.
ExtrasSelectionSourceCallbackFirst ==
    IF config.extras_choice_callback THEN "callback" ELSE "profile"

\* The if / elif / else of phase 6: where the selection comes from.
ExtrasSelectionSource ==
    IF config.non_interactive THEN "profile"
    ELSE IF config.extras_choice_callback THEN "callback"
    ELSE "profile"

\* The selected_free / selected_non_free of EXTRAS_SELECTION_MADE.
ExtrasSelectionMade(c) ==
    [Event("EXTRAS_SELECTION_MADE") EXCEPT
        !.free = c.selected_extras_free,
        !.non_free = c.selected_extras_non_free]

\* Phase 6, resumed after EXTRAS_SELECTION_REQUIRED: the selection is resolved
\* and EXTRAS_SELECTION_MADE is yielded; a callback may raise.
PhaseExtrasSelectionResolve ==
    /\ pc = <<"_phase_extras_selection", "EXTRAS_SELECTION_REQUIRED">>
    /\ IF ExtrasSelectionSource = "callback"
       THEN \/ \E v \in ExtrasCallbackReturns :
                 /\ calls' = Append(calls, Call("extras_choice_callback", v))
                 /\ choices' = [choices EXCEPT
                                   !.selected_extras_free = v[1],
                                   !.selected_extras_non_free = v[2]]
                 /\ Yield(ExtrasSelectionMade(choices'),
                          <<"_phase_extras_selection", "EXTRAS_SELECTION_MADE">>)
                 /\ UNCHANGED <<result, faults>>
            \/ /\ Fault("callback_raised")
               /\ calls' = Append(calls, Call("extras_choice_callback", <<>>))
               /\ \E e \in CallbackErrors : Raise(e)
               /\ UNCHANGED choices
       ELSE /\ choices' = [choices EXCEPT
                              !.selected_extras_free = profile.extras_free,
                              !.selected_extras_non_free =
                                  profile.extras_non_free]
            /\ Yield(ExtrasSelectionMade(choices'),
                     <<"_phase_extras_selection", "EXTRAS_SELECTION_MADE">>)
            /\ UNCHANGED <<calls, result, faults>>
    /\ UNCHANGED <<config, profile, catalog, adb, returned, remover, p8>>

\* Phase 6, resumed after EXTRAS_SELECTION_MADE: PHASE_COMPLETED.
PhaseExtrasSelectionDone ==
    /\ pc = <<"_phase_extras_selection", "EXTRAS_SELECTION_MADE">>
    /\ CompletePhase("_phase_extras_selection")
    /\ UNCHANGED <<calls, config, profile, catalog, adb, choices, result,
                   returned, remover, p8, faults>>

\* ----------------------------------------------------------------- phase 7

\* ADBResult(returncode, stdout) and its success property.
ADBResult(returncode, stdout) == [returncode |-> returncode, stdout |-> stdout]

Success(r) == r.returncode = 0

\* "success" in text.lower(), for the texts pm prints.
HasSuccessMarker(text) == text \in { "Success", "success", "SUCCESS" }

\* What pm uninstall / pm install print.
PmOutputs == { "Success", "Failure [INTERNAL_ERROR]" }

\* ADBDevice.uninstall_package and install_apk on the output pm printed:
\* returncode 0 exactly when the output holds the success marker.
PmResult(output) ==
    ADBResult(IF HasSuccessMarker(output) THEN 0 ELSE 1, output)

\* The ADBResult values a MagicMock transport is scripted to return: the
\* return code and the output vary independently.
MockResults ==
    { ADBResult(0, "Success"), ADBResult(1, "Success"), ADBResult(1, "SUCCESS"),
      ADBResult(1, "Failure [INTERNAL_ERROR]"), ADBResult(0, "") }

\* What uninstall_package / install_apk of the transport at hand return.
PmResults ==
    IF adb.mock THEN MockResults ELSE { PmResult(output) : output \in PmOutputs }

\* Fault injection: the remover and the installer never run dry.
DryRunIgnored == FALSE

\* self.dry_run of the PackageRemover and of the AppInstaller: phase 7 and
\* phase 8 construct both with dry_run = config.dry_run; a direct caller
\* passes the flag itself.
DryRun == config.dry_run

\* Fault injection: the camera tag is set whatever was chosen.
ConditionalChoicesAlways == { "camera" }

\* conditional_choices of phase 7, as the set of tags mapped to True.
ConditionalChoices ==
    IF choices.camera_choice = "fossify" THEN { "camera" } ELSE {}

\* Fault injection: the tags are not looked at.
GetPackagesToRemoveUntagged(p, conditional_choices) ==
    SelectSeq(p.packages, LAMBDA pkg : pkg.action = "remove")

\* DeviceProfile.get_packages_to_remove(conditional_choices).
GetPackagesToRemove(p, conditional_choices) ==
    SelectSeq(p.packages,
              LAMBDA pkg : /\ pkg.action = "remove"
                           /\ \/ pkg.conditional = NONE
                              \/ pkg.conditional \in conditional_choices)

PackageEvent(type, pkg) == [Event(type) EXCEPT !.id = pkg.id]

\* Fault injection: the Knox check comes before the not-installed check.
FirstEventKnoxFirst(pkg, installed) ==
    IF pkg.id \in KNOX_PROTECTED_PACKAGES THEN "PACKAGE_REMOVAL_SKIPPED"
    ELSE IF pkg.id \notin installed THEN "PACKAGE_NOT_INSTALLED"
    ELSE "PACKAGE_REMOVAL_STARTED"

\* Fault injection: no Knox check.
FirstEventWithoutKnox(pkg, installed) ==
    IF pkg.id \notin installed THEN "PACKAGE_NOT_INSTALLED"
    ELSE "PACKAGE_REMOVAL_STARTED"

\* The first event remove_packages yields for a package: the not-installed
\* check, then the Knox check, then the removal proper.
FirstEvent(pkg, installed) ==
    IF pkg.id \notin installed THEN "PACKAGE_NOT_INSTALLED"
    ELSE IF pkg.id \in KNOX_PROTECTED_PACKAGES THEN "PACKAGE_REMOVAL_SKIPPED"
    ELSE "PACKAGE_REMOVAL_STARTED"

\* The head of remove_packages' for loop with locals rm: the event of the
\* next package, or at the end of the list the return of the three counters,
\* which phase 7 stores in the result before PHASE_COMPLETED.
RemoveLoop(rm) ==
    /\ remover' = rm
    /\ IF rm.i > Len(rm.packages)
       THEN IF rm.caller = "workflow"
            THEN /\ result' = [result EXCEPT
                                   !.packages_removed = rm.removed,
                                   !.packages_skipped = rm.skipped,
                                   !.packages_failed = rm.failed]
                 /\ CompletePhase("_phase_remove_packages")
            ELSE /\ pc' = <<"remove_packages", "returned">>
                 /\ UNCHANGED <<events, raised, result>>
       ELSE LET pkg == rm.packages[rm.i]
                first == FirstEvent(pkg, rm.installed)
            IN /\ UNCHANGED result
               /\ Yield(PackageEvent(first, pkg), <<"remove_packages", first>>)

\* Phase 7, resumed after PHASE_STARTED: the removal list is filtered by the
\* camera choice, the remover takes its snapshot of installed packages and
\* reaches its first event.
PhaseRemovePackages ==
    /\ pc = <<"_phase_remove_packages", "PHASE_STARTED">>
    /\ calls' = Append(calls, Call("list_packages", ""))
    /\ \/ /\ UNCHANGED faults
          /\ RemoveLoop([NoRemover EXCEPT
                             !.packages = GetPackagesToRemove(
                                              profile, ConditionalChoices),
                             !.installed_packages = << adb.packages >>,
                             !.installed = adb.packages, !.i = 1])
       \/ /\ Fault("device_disconnected")
          /\ Raise(Exc("DeviceDisconnectedError", <<"Device disconnected">>))
          /\ UNCHANGED remover
    /\ UNCHANGED <<config, profile, catalog, adb, choices, returned, p8>>

\* Fault injection: a package that is not installed is not counted.
RemoverAfterNotInstalledUncounted ==
    /\ pc = <<"remove_packages", "PACKAGE_NOT_INSTALLED">>
    /\ RemoveLoop([remover EXCEPT !.i = @ + 1])
    /\ UNCHANGED <<calls, config, profile, catalog, adb, choices, returned,
                   p8, faults>>

\* remove_packages resumed after PACKAGE_NOT_INSTALLED: skipped += 1.
RemoverAfterNotInstalled ==
    /\ pc = <<"remove_packages", "PACKAGE_NOT_INSTALLED">>
    /\ RemoveLoop([remover EXCEPT !.skipped = @ + 1, !.i = @ + 1])
    /\ UNCHANGED <<calls, config, profile, catalog, adb, choices, returned,
                   p8, faults>>

\* remove_packages resumed after PACKAGE_REMOVAL_SKIPPED: skipped += 1.
RemoverAfterSkipped ==
    /\ pc = <<"remove_packages", "PACKAGE_REMOVAL_SKIPPED">>
    /\ RemoveLoop([remover EXCEPT !.skipped = @ + 1, !.i = @ + 1])
    /\ UNCHANGED <<calls, config, profile, catalog, adb, choices, returned,
                   p8, faults>>

\* Fault injection: only the return code counts.
ReportsSuccessByCode(r) == Success(r)

\* result.success or "success" in result.stdout.lower().
ReportsSuccess(r) == Success(r) \/ HasSuccessMarker(r.stdout)

\* The transport after uninstall_package(id) returned r: a device no longer
\* lists a package pm has uninstalled, a mock keeps returning what it was
\* scripted to return.
AfterUninstall(a, id, r) ==
    IF ~a.mock /\ Success(r) THEN [a EXCEPT !.packages = @ \ { id }] ELSE a

\* e leaves generator f: inside the workflow it reaches execute's except
\* clauses, a direct caller gets it from next().
RaiseToCaller(caller, f, e) ==
    IF caller = "workflow"
    THEN Raise(e)
    ELSE /\ raised' = e
         /\ pc' = <<f, "raised">>
         /\ UNCHANGED <<events, result>>

\* remove_packages resumed after PACKAGE_REMOVAL_STARTED: a dry run reports
\* the package removed; a real run calls uninstall_package and classifies
\* its result. A lost connection raises out of the call.
RemoverAfterStarted ==
    /\ pc = <<"remove_packages", "PACKAGE_REMOVAL_STARTED">>
    /\ LET pkg == remover.packages[remover.i]
       IN IF DryRun
          THEN /\ Yield(PackageEvent("PACKAGE_REMOVED", pkg),
                        <<"remove_packages", "PACKAGE_REMOVED">>)
               /\ UNCHANGED <<calls, result, faults, remover, adb>>
          ELSE /\ calls' = Append(calls, Call("uninstall_package", pkg.id))
               /\ \/ \E r \in PmResults :
                       /\ remover' = [remover EXCEPT !.result = r]
                       /\ adb' = AfterUninstall(adb, pkg.id, r)
                       /\ IF ReportsSuccess(r)
                          THEN /\ UNCHANGED faults
                               /\ Yield(PackageEvent("PACKAGE_REMOVED", pkg),
                                        <<"remove_packages", "PACKAGE_REMOVED">>)
                          ELSE /\ Fault("uninstall_failed")
                               /\ Yield(PackageEvent("PACKAGE_REMOVAL_FAILED",
                                                     pkg),
                                        <<"remove_packages",
                                          "PACKAGE_REMOVAL_FAILED">>)
                       /\ UNCHANGED result
                  \/ /\ ~adb.mock
                     /\ Fault("device_disconnected")
                     /\ RaiseToCaller(remover.caller, "remove_packages",
                                      Exc("DeviceDisconnectedError",
                                          <<"Device disconnected">>))
                     /\ UNCHANGED <<remover, adb>>
    /\ UNCHANGED <<config, profile, catalog, choices, returned, p8>>

\* Fault injection: after a removal the next package is uninstalled at once,
\* before its first event is yielded.
RemoverAfterRemovedEager ==
    /\ pc = <<"remove_packages", "PACKAGE_REMOVED">>
    /\ LET rm == [remover EXCEPT !.removed = @ + 1, !.i = @ + 1]
       IN /\ calls' = IF rm.i <= Len(rm.packages) /\ ~DryRun
                       THEN Append(calls, Call("uninstall_package",
                                               rm.packages[rm.i].id))
                       ELSE calls
          /\ RemoveLoop(rm)
    /\ UNCHANGED <<config, profile, catalog, adb, choices, returned, p8,
                   faults>>

\* remove_packages resumed after PACKAGE_REMOVED: removed += 1.
RemoverAfterRemoved ==
    /\ pc = <<"remove_packages", "PACKAGE_REMOVED">>
    /\ RemoveLoop([remover EXCEPT !.removed = @ + 1, !.i = @ + 1])
    /\ UNCHANGED <<calls, config, profile, catalog, adb, choices, returned,
                   p8, faults>>

\* Fault injection: a failed removal ends the loop.
RemoverAfterFailedAborting ==
    /\ pc = <<"remove_packages", "PACKAGE_REMOVAL_FAILED">>
    /\ RemoveLoop([remover EXCEPT !.failed = @ + 1,
                                  !.i = Len(remover.packages) + 1])
    /\ UNCHANGED <<calls, config, profile, catalog, adb, choices, returned,
                   p8, faults>>

\* remove_packages resumed after PACKAGE_REMOVAL_FAILED: failed += 1.
RemoverAfterFailed ==
    /\ pc = <<"remove_packages", "PACKAGE_REMOVAL_FAILED">>
    /\ RemoveLoop([remover EXCEPT !.failed = @ + 1, !.i = @ + 1])
    /\ UNCHANGED <<calls, config, profile, catalog, adb, choices, returned,
                   p8, faults>>

\* ------------------------------------------------------ phase 8: downloads

\* AppsCatalog.get_core_apps_sorted: sorted() by installation_priority, which
\* keeps apps of equal priority in catalog order.
RECURSIVE InsertByPriority(_, _)
InsertByPriority(sorted, app) ==
    IF sorted = <<>> THEN <<app>>
    ELSE IF Head(sorted).installation_priority <= app.installation_priority
    THEN <<Head(sorted)>> \o InsertByPriority(Tail(sorted), app)
    ELSE <<app>> \o sorted

RECURSIVE SortedByPriority(_)
SortedByPriority(apps) ==
    IF apps = <<>> THEN <<>>
    ELSE InsertByPriority(SortedByPriority(SubSeq(apps, 1, Len(apps) - 1)),
                          apps[Len(apps)])

\* Fault injection: apps of equal priority come out in reverse catalog order.
GetCoreAppsSortedTiesReversed(c) ==
    SortedByPriority([i \in 1..Len(c.core_apps) |->
                         c.core_apps[Len(c.core_apps) + 1 - i]])

GetCoreAppsSorted(c) == SortedByPriority(c.core_apps)

\* Fault injection: every id is looked up in both partitions of the extras.
ResolveExtrasAnyPartition(c, free_ids, non_free_ids) ==
    LET extras == c.extras_free \o c.extras_non_free
        ids == free_ids \o non_free_ids
        missing == SelectSeq(ids, LAMBDA id : ~HasId(extras, id))
    IN IF missing # <<>>
       THEN [ok |-> FALSE,
             error |-> Exc("AppNotFoundError",
                           <<"App not found", missing[1], "extras_free">>)]
       ELSE [ok |-> TRUE,
             apps |-> [i \in 1..Len(ids) |-> ById(extras, ids[i])]]

\* AppsCatalog.resolve_extras(free_ids, non_free_ids): the definitions, or
\* AppNotFoundError for the first id missing from its partition.
ResolveExtras(c, free_ids, non_free_ids) ==
    LET missing_free == SelectSeq(free_ids,
                                  LAMBDA id : ~HasId(c.extras_free, id))
        missing_non_free == SelectSeq(non_free_ids,
                                      LAMBDA id : ~HasId(c.extras_non_free, id))
    IN IF missing_free # <<>>
       THEN [ok |-> FALSE,
             error |-> Exc("AppNotFoundError",
                           <<"App not found", missing_free[1], "extras_free">>)]
       ELSE IF missing_non_free # <<>>
       THEN [ok |-> FALSE,
             error |-> Exc("AppNotFoundError",
                           <<"App not found", missing_non_free[1],
                             "extras_non_free">>)]
       ELSE [ok |-> TRUE,
             apps |-> [i \in 1..Len(free_ids) |->
                          ById(c.extras_free, free_ids[i])]
                      \o [i \in 1..Len(non_free_ids) |->
                             ById(c.extras_non_free, non_free_ids[i])]]

\* The apps phase 8 puts in apps_to_install before resolve_extras: the core
\* apps, then the camera app if the choice is "fossify" and the free extras
\* declare "camera".
CoreAndCamera ==
    GetCoreAppsSorted(catalog)
    \o (IF choices.camera_choice = "fossify" /\ HasId(catalog.extras_free, "camera")
        THEN <<ById(catalog.extras_free, "camera")>> ELSE <<>>)

DownloadEvent(type, app) == [Event(type) EXCEPT !.id = app.id]

\* "launcher", "dialer", "messaging", "keyboard", "gallery".
RoleIds == { "launcher", "dialer", "messaging", "keyboard", "gallery" }

\* role_methods of set_default_apps: the transport method of each role.
RoleMethods(role_id) ==
    CASE role_id = "launcher" -> "set_default_launcher"
      [] role_id = "dialer" -> "set_default_dialer"
      [] role_id = "messaging" -> "set_default_sms"
      [] role_id = "keyboard" -> "set_default_keyboard"
      [] role_id = "gallery" -> "set_default_gallery"

\* default_apps of phase 8: a dict keyed by app id filled from apps_to_install,
\* as the list of its values in key insertion order (a repeated id keeps its
\* first position and its last value).
DefaultApps(apps) ==
    LET roles == SelectSeq(apps, LAMBDA app : app.id \in RoleIds)
        keys == SelectSeq([i \in 1..Len(roles) |-> <<i, roles[i].id>>],
                          LAMBDA x : \A h \in 1..(x[1] - 1) : roles[h].id # x[2])
        last(id) == CHOOSE i \in 1..Len(roles) :
                        /\ roles[i].id = id
                        /\ \A h \in (i + 1)..Len(roles) : roles[h].id # id
    IN [n \in 1..Len(keys) |-> roles[last(keys[n][2])]]

DefaultAppEvent(type, app) == [Event(type) EXCEPT !.id = app.id]

\* What the set_default_* methods of the transport at hand return: an
\* ADBDevice returns code 0, or the code of the ADBCommandError it caught.
RoleResults ==
    IF adb.mock THEN MockResults ELSE { ADBResult(0, ""), ADBResult(1, "") }

\* The first position from r on whose key is in role_methods (the loop
\* skips the other keys), or one past the end.
RECURSIVE NextRole(_, _)
NextRole(apps, r) ==
    IF r > Len(apps) \/ apps[r].id \in RoleIds THEN r
    ELSE NextRole(apps, r + 1)

\* Fault injection: no key is skipped.
DefaultLoopAnyKey(q, res) ==
    LET q1 == q
    IN IF q1.r > Len(q1.default_apps)
       THEN /\ p8' = q1
            /\ result' = res
            /\ UNCHANGED <<calls, faults>>
            /\ IF q1.caller = "workflow"
               THEN CompletePhase("_phase_download_and_install")
               ELSE /\ pc' = <<"set_default_apps", "returned">>
                    /\ UNCHANGED <<events, raised>>
       ELSE LET app == q1.default_apps[q1.r]
            IN IF DryRun
               THEN /\ p8' = q1
                    /\ result' = res
                    /\ Yield(DefaultAppEvent("DEFAULT_APP_SET", app),
                             <<"set_default_apps", "DEFAULT_APP_SET">>)
                    /\ UNCHANGED <<calls, faults>>
               ELSE /\ calls' = Append(calls, Call("set_default_launcher",
                                                   app.package_id))
                    /\ \E r \in RoleResults :
                          /\ p8' = [q1 EXCEPT !.result = r]
                          /\ result' = res
                          /\ IF Success(r)
                             THEN /\ UNCHANGED faults
                                  /\ Yield(DefaultAppEvent("DEFAULT_APP_SET", app),
                                           <<"set_default_apps",
                                             "DEFAULT_APP_SET">>)
                             ELSE /\ Fault("role_failed")
                                  /\ Yield(DefaultAppEvent("DEFAULT_APP_FAILED",
                                                           app),
                                           <<"set_default_apps",
                                             "DEFAULT_APP_FAILED">>)

\* The head of set_default_apps' for loop with the installer's locals q and
\* the result res, the dict given as the list of its values in key order
\* (every app under its own id): keys outside role_methods are skipped; a
\* dry run yields DEFAULT_APP_SET, a real run calls the role's transport
\* method and yields DEFAULT_APP_SET or DEFAULT_APP_FAILED on result.success
\* alone; a lost connection raises out of the call. After the last key the
\* generator returns nothing, and phase 8 yields PHASE_COMPLETED.
DefaultLoop(q, res) ==
    LET q1 == [q EXCEPT !.r = NextRole(q.default_apps, q.r)]
    IN IF q1.r > Len(q1.default_apps)
       THEN /\ p8' = q1
            /\ result' = res
            /\ UNCHANGED <<calls, faults>>
            /\ IF q1.caller = "workflow"
               THEN CompletePhase("_phase_download_and_install")
               ELSE /\ pc' = <<"set_default_apps", "returned">>
                    /\ UNCHANGED <<events, raised>>
       ELSE LET app == q1.default_apps[q1.r]
            IN IF DryRun
               THEN /\ p8' = q1
                    /\ result' = res
                    /\ Yield(DefaultAppEvent("DEFAULT_APP_SET", app),
                             <<"set_default_apps", "DEFAULT_APP_SET">>)
                    /\ UNCHANGED <<calls, faults>>
               ELSE /\ calls' = Append(calls, Call(RoleMethods(app.id),
                                                   app.package_id))
                    /\ \/ \E r \in RoleResults :
                            /\ p8' = [q1 EXCEPT !.result = r]
                            /\ result' = res
                            /\ IF Success(r)
                               THEN /\ UNCHANGED faults
                                    /\ Yield(DefaultAppEvent("DEFAULT_APP_SET",
                                                             app),
                                             <<"set_default_apps",
                                               "DEFAULT_APP_SET">>)
                               ELSE /\ Fault("role_failed")
                                    /\ Yield(DefaultAppEvent(
                                                 "DEFAULT_APP_FAILED", app),
                                             <<"set_default_apps",
                                               "DEFAULT_APP_FAILED">>)
                       \/ /\ ~adb.mock
                          /\ Fault("device_disconnected")
                          /\ p8' = q1
                          /\ RaiseFrom(res, Exc("DeviceDisconnectedError",
                                                <<"Device disconnected">>))

InstallEvent(type, app) == [Event(type) EXCEPT !.id = app.id]

\* The head of install_apps' for loop with phase 8's locals q: INSTALL_STARTED
\* for the next downloaded app, or at the end of the list the return of the
\* two counters, which phase 8 stores in the result before it builds
\* default_apps from apps_to_install and starts set_default_apps.
InstallLoop(q) ==
    IF q.k > Len(q.downloaded)
    THEN IF q.caller = "workflow"
         THEN DefaultLoop([q EXCEPT
                              !.default_apps = DefaultApps(q.apps_to_install),
                              !.r = 1],
                          [result EXCEPT !.apps_installed = q.installed,
                                         !.apps_failed = q.failed])
         ELSE /\ p8' = q
              /\ pc' = <<"install_apps", "returned">>
              /\ UNCHANGED <<events, raised, calls, faults, result>>
    ELSE /\ p8' = q
         /\ Yield(InstallEvent("INSTALL_STARTED", q.downloaded[q.k]),
                  <<"install_apps", "INSTALL_STARTED">>)
         /\ UNCHANGED <<calls, faults, result>>

\* The head of phase 8's download loop with locals q: DOWNLOAD_STARTED of the
\* next app, or after the last app the installer's first step.
DownloadLoop(q) ==
    IF q.j > Len(q.apps_to_install)
    THEN InstallLoop([q EXCEPT !.k = 1, !.installed = 0, !.failed = 0])
    ELSE /\ p8' = [q EXCEPT !.chunks = 0]
         /\ Yield(DownloadEvent("DOWNLOAD_STARTED", q.apps_to_install[q.j]),
                  <<"download_app", "DOWNLOAD_STARTED">>)
         /\ UNCHANGED <<calls, faults, result>>

\* Phase 8, resumed after PHASE_STARTED: apps_to_install is built (an extras
\* id the catalog does not declare raises AppNotFoundError) and the first
\* download starts.
PhaseDownloadAndInstall ==
    /\ pc = <<"_phase_download_and_install", "PHASE_STARTED">>
    /\ LET extras == ResolveExtras(catalog, choices.selected_extras_free,
                                   choices.selected_extras_non_free)
       IN IF ~extras.ok
          THEN /\ Raise(extras.error)
               /\ UNCHANGED <<calls, faults, p8>>
          ELSE DownloadLoop([NoP8 EXCEPT
                                !.apps_to_install = CoreAndCamera \o extras.apps,
                                !.j = 1])
    /\ UNCHANGED <<config, profile, catalog, adb, choices, returned, remover>>

\* download_app resumed after DOWNLOAD_STARTED. An F-Droid app needs the
\* index, fetched on first use: a failed fetch raises FDroidIndexError, which
\* download_app does not catch. A DownloadError or NetworkError (no package
\* info, HTTP error) is caught and yields DOWNLOAD_FAILED. Otherwise the file
\* is streamed: an F-Droid file has a known size and yields DOWNLOAD_PROGRESS
\* per chunk, a direct file of unknown size yields none.
DownloaderAfterStarted ==
    /\ pc = <<"download_app", "DOWNLOAD_STARTED">>
    /\ LET app == p8.apps_to_install[p8.j]
           fetched == [p8 EXCEPT !.index_fetched = @ \/ app.source = "fdroid"]
       IN \/ /\ app.source = "fdroid" /\ ~p8.index_fetched
             /\ Fault("index_fetch_failed")
             /\ Raise(Exc("FDroidIndexError",
                          <<"Failed to fetch F-Droid index">>))
             /\ p8' = fetched
          \/ /\ Fault("download_failed")
             /\ Yield(DownloadEvent("DOWNLOAD_FAILED", app),
                      <<"download_app", "DOWNLOAD_FAILED">>)
             /\ p8' = fetched
             /\ UNCHANGED result
          \/ /\ UNCHANGED <<faults, result>>
             /\ IF app.source = "fdroid"
                THEN /\ p8' = [fetched EXCEPT !.chunks = 1]
                     /\ Yield(DownloadEvent("DOWNLOAD_PROGRESS", app),
                              <<"download_app", "DOWNLOAD_PROGRESS">>)
                ELSE /\ p8' = fetched
                     /\ Yield(DownloadEvent("DOWNLOAD_COMPLETED", app),
                              <<"download_app", "DOWNLOAD_COMPLETED">>)
    /\ UNCHANGED <<calls, config, profile, catalog, adb, choices, returned,
                   remover>>

\* download_app resumed after DOWNLOAD_PROGRESS: the next chunk, or after the
\* last one the checksum is verified: a mismatch (ChecksumError) is caught
\* and yields DOWNLOAD_FAILED, a match yields DOWNLOAD_COMPLETED.
DownloaderAfterProgress ==
    /\ pc = <<"download_app", "DOWNLOAD_PROGRESS">>
    /\ LET app == p8.apps_to_install[p8.j]
       IN IF p8.chunks < FileChunks
          THEN /\ p8' = [p8 EXCEPT !.chunks = @ + 1]
               /\ Yield(DownloadEvent("DOWNLOAD_PROGRESS", app),
                        <<"download_app", "DOWNLOAD_PROGRESS">>)
               /\ UNCHANGED faults
          ELSE /\ UNCHANGED p8
               /\ \/ /\ Fault("checksum_mismatch")
                     /\ Yield(DownloadEvent("DOWNLOAD_FAILED", app),
                              <<"download_app", "DOWNLOAD_FAILED">>)
                  \/ /\ UNCHANGED faults
                     /\ Yield(DownloadEvent("DOWNLOAD_COMPLETED", app),
                              <<"download_app", "DOWNLOAD_COMPLETED">>)
    /\ UNCHANGED <<calls, config, profile, catalog, adb, choices, result,
                   returned, remover>>

\* download_app resumed after DOWNLOAD_COMPLETED: it returns the path, phase 8
\* appends the app to downloaded and goes on with the next app.
DownloaderAfterCompleted ==
    /\ pc = <<"download_app", "DOWNLOAD_COMPLETED">>
    /\ DownloadLoop([p8 EXCEPT
                        !.downloaded = Append(@, p8.apps_to_install[p8.j]),
                        !.j = @ + 1])
    /\ UNCHANGED <<config, profile, catalog, adb, choices, returned, remover>>

\* Fault injection: after a failed download the generator waits for a retry
\* that never comes.
DownloaderAfterFailedWaiting ==
    /\ pc = <<"download_app", "DOWNLOAD_FAILED">>
    /\ UNCHANGED vars

\* download_app resumed after DOWNLOAD_FAILED: it returns None, phase 8
\* appends nothing and goes on with the next app.
DownloaderAfterFailed ==
    /\ pc = <<"download_app", "DOWNLOAD_FAILED">>
    /\ DownloadLoop([p8 EXCEPT !.j = @ + 1])
    /\ UNCHANGED <<config, profile, catalog, adb, choices, returned, remover>>

\* ------------------------------------------- phase 8: installs and defaults

\* install_apps resumed after INSTALL_STARTED: a dry run reports the app
\* installed; a real run calls install_apk and classifies its result. A lost
\* connection raises out of the call.
InstallerAfterStarted ==
    /\ pc = <<"install_apps", "INSTALL_STARTED">>
    /\ LET app == p8.downloaded[p8.k]
       IN IF DryRun
          THEN /\ Yield(InstallEvent("INSTALL_COMPLETED", app),
                        <<"install_apps", "INSTALL_COMPLETED">>)
               /\ UNCHANGED <<calls, result, faults, p8>>
          ELSE /\ calls' = Append(calls, Call("install_apk", app.id))
               /\ \/ \E r \in PmResults :
                       /\ p8' = [p8 EXCEPT !.result = r]
                       /\ IF ReportsSuccess(r)
                          THEN /\ UNCHANGED faults
                               /\ Yield(InstallEvent("INSTALL_COMPLETED", app),
                                        <<"install_apps", "INSTALL_COMPLETED">>)
                          ELSE /\ Fault("install_failed")
                               /\ Yield(InstallEvent("INSTALL_FAILED", app),
                                        <<"install_apps", "INSTALL_FAILED">>)
                       /\ UNCHANGED result
                  \/ /\ ~adb.mock
                     /\ Fault("device_disconnected")
                     /\ Raise(Exc("DeviceDisconnectedError",
                                  <<"Device disconnected">>))
                     /\ UNCHANGED p8
    /\ UNCHANGED <<config, profile, catalog, adb, choices, returned, remover>>

\* install_apps resumed after INSTALL_COMPLETED: installed += 1.
InstallerAfterCompleted ==
    /\ pc = <<"install_apps", "INSTALL_COMPLETED">>
    /\ InstallLoop([p8 EXCEPT !.installed = @ + 1, !.k = @ + 1])
    /\ UNCHANGED <<config, profile, catalog, adb, choices, returned, remover>>

\* install_apps resumed after INSTALL_FAILED: failed += 1.
InstallerAfterFailed ==
    /\ pc = <<"install_apps", "INSTALL_FAILED">>
    /\ InstallLoop([p8 EXCEPT !.failed = @ + 1, !.k = @ + 1])
    /\ UNCHANGED <<config, profile, catalog, adb, choices, returned, remover>>

\* set_default_apps resumed after DEFAULT_APP_SET: the next role.
DefaultAfterSet ==
    /\ pc = <<"set_default_apps", "DEFAULT_APP_SET">>
    /\ DefaultLoop([p8 EXCEPT !.r = @ + 1], result)
    /\ UNCHANGED <<config, profile, catalog, adb, choices, returned, remover>>

\* set_default_apps resumed after DEFAULT_APP_FAILED: the next role.
DefaultAfterFailed ==
    /\ pc = <<"set_default_apps", "DEFAULT_APP_FAILED">>
    /\ DefaultLoop([p8 EXCEPT !.r = @ + 1], result)
    /\ UNCHANGED <<config, profile, catalog, adb, choices, returned, remover>>

Next ==
    \/ Start
    \/ EnterFirstPhase
    \/ PhaseReturn
    \/ Return
    \/ PhaseLoadProfile
    \/ PhaseLoadCatalog
    \/ PhaseConnectDevice
    \/ PhaseConnectDeviceDone
    \/ PhaseValidateDevice
    \/ PhaseValidateDeviceDone
    \/ PhaseCameraChoice
    \/ PhaseCameraChoiceResolve
    \/ PhaseCameraChoiceDone
    \/ PhaseExtrasSelection
    \/ PhaseExtrasSelectionResolve
    \/ PhaseExtrasSelectionDone
    \/ PhaseRemovePackages
    \/ RemoverAfterNotInstalled
    \/ RemoverAfterSkipped
    \/ RemoverAfterStarted
    \/ RemoverAfterRemoved
    \/ RemoverAfterFailed
    \/ PhaseDownloadAndInstall
    \/ DownloaderAfterStarted
    \/ DownloaderAfterProgress
    \/ DownloaderAfterCompleted
    \/ DownloaderAfterFailed
    \/ InstallerAfterStarted
    \/ InstallerAfterCompleted
    \/ InstallerAfterFailed
    \/ DefaultAfterSet
    \/ DefaultAfterFailed

Spec == Init /\ [][Next]_vars

\* The caller keeps pulling: a suspended generator is resumed (for event in
\* workflow.execute()).
SpecPulled == Init /\ [][Next]_vars /\ WF_vars(Next)

\* ------------------------------------------- remove_packages called directly

\* The longest list a direct caller passes.
MaxList == 3

\* The ids of the lists: a plain package, one no snapshot holds, a
\* Knox-protected one.
ListIds == { BIXBY, FACEBOOK, SECURE_FOLDER }

\* Every list over ListIds of at most MaxList entries, repeated ids included.
PackageLists ==
    UNION { [1..n -> { PackageToRemove(id, "remove", NONE) : id \in ListIds }] :
            n \in 0..MaxList }

\* What the mock's list_packages returns.
Snapshots == SUBSET { BIXBY, SECURE_FOLDER }

\* WorkflowConfig() with the given dry_run.
ConfigWith(dry_run) ==
    [dry_run |-> dry_run, non_interactive |-> FALSE,
     camera_choice_callback |-> FALSE, extras_choice_callback |-> FALSE]

\* A mock transport whose list_packages returns the given packages.
MockADB(packages) ==
    [NoADB EXCEPT !.created = TRUE, !.connected = TRUE, !.mock = TRUE,
                  !.packages = packages]

\* PackageRemover(mock_adb_device, dry_run) and gen = remove_packages(packages)
\* before the first next(gen), for every list, snapshot and dry-run setting.
InitRemover ==
    /\ pc = <<"remove_packages", "not_started">>
    /\ events = <<>>
    /\ calls = <<>>
    /\ \E dry_run \in BOOLEAN : config = ConfigWith(dry_run)
    /\ profile = NoProfile
    /\ catalog = NoCatalog
    /\ \E packages \in Snapshots : adb = MockADB(packages)
    /\ choices = UserChoices
    /\ result = WorkflowResult
    /\ returned = [done |-> FALSE]
    /\ \E packages \in PackageLists :
          remover = [NoRemover EXCEPT !.packages = packages,
                                      !.caller = "direct"]
    /\ p8 = NoP8
    /\ faults = <<>>
    /\ raised = NoException

\* Fault injection: the cache is never used.
CacheIsEmptyAlways(rm) == TRUE

\* self._installed_packages is None (the attribute is a list of no set or of
\* one set).
CacheIsEmpty(rm) == rm.installed_packages = <<>>

\* PackageRemover._get_installed_packages: what list_packages returns on a
\* miss, the cached set otherwise.
GetInstalledPackages(rm) ==
    IF CacheIsEmpty(rm) THEN adb.packages ELSE rm.installed_packages[1]

\* The first next() on remove_packages: the counters are zeroed, the snapshot
\* of installed packages is taken and the loop reaches its first event or,
\* for an empty list, returns.
RemovePackages ==
    /\ pc = <<"remove_packages", "not_started">>
    /\ calls' = IF CacheIsEmpty(remover)
                THEN Append(calls, Call("list_packages", ""))
                ELSE calls
    /\ RemoveLoop([remover EXCEPT
                      !.installed_packages = << GetInstalledPackages(remover) >>,
                      !.installed = GetInstalledPackages(remover), !.i = 1,
                      !.removed = 0, !.skipped = 0, !.failed = 0])
    /\ UNCHANGED <<config, profile, catalog, adb, choices, returned, p8,
                   faults>>

NextRemover ==
    \/ RemovePackages
    \/ RemoverAfterNotInstalled
    \/ RemoverAfterSkipped
    \/ RemoverAfterStarted
    \/ RemoverAfterRemoved
    \/ RemoverAfterFailed

SpecRemover == InitRemover /\ [][NextRemover]_vars

\* ------------------------------------- one PackageRemover used more than once

\* The most calls of remove_packages one PackageRemover instance gets.
MaxCalls == 2

\* The calls of remove_packages made after the first one.
LaterCalls == { i \in DOMAIN calls : calls[i].op = "remove_packages" }

\* PackageRemover(adb, dry_run) on a connected device and
\* gen = remove_packages(packages) before the first next(gen).
InitReuse ==
    /\ pc = <<"remove_packages", "not_started">>
    /\ events = <<>>
    /\ calls = <<>>
    /\ \E dry_run \in BOOLEAN : config = ConfigWith(dry_run)
    /\ profile = NoProfile
    /\ catalog = NoCatalog
    /\ \E packages \in Snapshots :
          adb = [MockADB(packages) EXCEPT !.mock = FALSE]
    /\ choices = UserChoices
    /\ result = WorkflowResult
    /\ returned = [done |-> FALSE]
    /\ \E packages \in PackageLists :
          remover = [NoRemover EXCEPT !.packages = packages,
                                      !.caller = "direct"]
    /\ p8 = NoP8
    /\ faults = <<>>
    /\ raised = NoException

\* After remove_packages returned the caller calls it again on the same
\* instance with another list and pulls once: the counters are zeroed, the
\* installed packages come from _get_installed_packages.
RemovePackagesAgain ==
    /\ pc = <<"remove_packages", "returned">>
    /\ Cardinality(LaterCalls) < MaxCalls - 1
    /\ \E packages \in PackageLists :
          /\ calls' = IF CacheIsEmpty(remover)
                      THEN calls \o << Call("remove_packages", ""),
                                       Call("list_packages", "") >>
                      ELSE Append(calls, Call("remove_packages", ""))
          /\ RemoveLoop([remover EXCEPT
                            !.packages = packages,
                            !.installed_packages =
                                << GetInstalledPackages(remover) >>,
                            !.installed = GetInstalledPackages(remover),
                            !.i = 1, !.removed = 0, !.skipped = 0,
                            !.failed = 0])
    /\ UNCHANGED <<config, profile, catalog, adb, choices, returned, p8,
                   faults>>

NextReuse ==
    \/ RemovePackages
    \/ RemovePackagesAgain
    \/ RemoverAfterNotInstalled
    \/ RemoverAfterSkipped
    \/ RemoverAfterStarted
    \/ RemoverAfterRemoved
    \/ RemoverAfterFailed

SpecReuse == InitReuse /\ [][NextReuse]_vars

\* ------------------------------------ get_packages_to_remove called directly

\* The conditional tags of the profiles and of the choices.
Tags == { "camera", "browser" }

\* PackageToRemove instances: two ids, both actions, untagged or tagged.
TaggedEntries ==
    { PackageToRemove(id, action, conditional) :
        id \in { BIXBY, STOCK_CAMERA }, action \in { "remove", "disable" },
        conditional \in { NONE } \cup Tags }

\* Every profile whose packages are a list over TaggedEntries of at most
\* MaxList entries.
TaggedProfiles ==
    { [NoProfile EXCEPT !.loaded = TRUE, !.model_pattern = MODEL_PATTERN,
                        !.packages = packages] :
        packages \in UNION { [1..n -> TaggedEntries] : n \in 0..MaxList } }

\* A loaded DeviceProfile before get_packages_to_remove is called on it.
InitProfile ==
    /\ pc = <<"get_packages_to_remove", "not_started">>
    /\ events = <<>>
    /\ calls = <<>>
    /\ config = ConfigWith(FALSE)
    /\ profile \in TaggedProfiles
    /\ catalog = NoCatalog
    /\ adb = NoADB
    /\ choices = UserChoices
    /\ result = WorkflowResult
    /\ returned = [done |-> FALSE]
    /\ remover = NoRemover
    /\ p8 = NoP8
    /\ faults = <<>>
    /\ raised = NoException

\* profile.get_packages_to_remove(conditional_choices), the dict given as the
\* set of the tags it maps to True (None and {} are the empty set).
CallGetPackagesToRemove ==
    /\ pc = <<"get_packages_to_remove", "not_started">>
    /\ \E conditional_choices \in SUBSET Tags :
          /\ calls' = Append(calls, Call("get_packages_to_remove",
                                         conditional_choices))
          /\ returned' = [done |-> TRUE,
                          value |-> GetPackagesToRemove(profile,
                                                        conditional_choices)]
    /\ pc' = <<"get_packages_to_remove", "returned">>
    /\ UNCHANGED <<events, config, profile, catalog, adb, choices, result,
                   remover, p8, faults, raised>>

NextProfile == CallGetPackagesToRemove

SpecProfile == InitProfile /\ [][NextProfile]_vars

\* ----------------------- install_apps and set_default_apps called directly

\* The lists of downloaded apps a direct caller passes to install_apps (the
\* APK paths left out): every list of at most MaxList apps, repeats included.
DownloadedLists ==
    UNION { [1..n -> { LAUNCHER, WEATHER, SIGNAL }] : n \in 0..MaxList }

\* The dicts a direct caller passes to set_default_apps, every app under its
\* own id: role apps and others, at most MaxList keys.
DefaultAppMaps ==
    { Seconds(l) :
        l \in SubListsUpTo(<<WEATHER, LAUNCHER, CAMERA, DIALER>>, MaxList) }

\* AppInstaller(mock_adb_device, dry_run) and install_apps(apps) or
\* set_default_apps(apps) before the first next().
InitInstaller ==
    /\ events = <<>>
    /\ calls = <<>>
    /\ \E dry_run \in BOOLEAN : config = ConfigWith(dry_run)
    /\ profile = NoProfile
    /\ catalog = NoCatalog
    /\ adb = MockADB({})
    /\ choices = UserChoices
    /\ result = WorkflowResult
    /\ returned = [done |-> FALSE]
    /\ remover = NoRemover
    /\ \/ /\ pc = <<"install_apps", "not_started">>
          /\ \E apps \in DownloadedLists :
                p8 = [NoP8 EXCEPT !.downloaded = apps, !.caller = "direct"]
       \/ /\ pc = <<"set_default_apps", "not_started">>
          /\ \E apps \in DefaultAppMaps :
                p8 = [NoP8 EXCEPT !.default_apps = apps, !.caller = "direct"]
    /\ faults = <<>>
    /\ raised = NoException

\* The first next() on install_apps: the counters are zeroed and the loop
\* reaches INSTALL_STARTED of the first entry or, for an empty list, returns.
InstallApps ==
    /\ pc = <<"install_apps", "not_started">>
    /\ InstallLoop([p8 EXCEPT !.k = 1, !.installed = 0, !.failed = 0])
    /\ UNCHANGED <<config, profile, catalog, adb, choices, returned, remover>>

\* The first next() on set_default_apps.
SetDefaultApps ==
    /\ pc = <<"set_default_apps", "not_started">>
    /\ DefaultLoop([p8 EXCEPT !.r = 1], result)
    /\ UNCHANGED <<config, profile, catalog, adb, choices, returned, remover>>

NextInstaller ==
    \/ InstallApps
    \/ InstallerAfterStarted
    \/ InstallerAfterCompleted
    \/ InstallerAfterFailed
    \/ SetDefaultApps
    \/ DefaultAfterSet
    \/ DefaultAfterFailed

SpecInstaller == InitInstaller /\ [][NextInstaller]_vars

\* ------------------------------------------- resolve_extras called directly

\* The longest id list a direct caller passes.
MaxIds == 2

\* A non-free app that shares its id with the free app WEATHER.
WEATHER_PRO == AppDefinition("weather", "com.weather.pro", "direct", 50)

\* Catalogs whose partitions hold any of two apps each; "weather" can be in
\* both partitions, "launcher" is a core app only.
ExtrasCatalogs ==
    { [loaded |-> TRUE, core_apps |-> <<LAUNCHER, DIALER>>,
       extras_free |-> Seconds(free), extras_non_free |-> Seconds(non_free)] :
        free \in SubListsUpTo(<<CAMERA, WEATHER>>, 2),
        non_free \in SubListsUpTo(<<SIGNAL, WEATHER_PRO>>, 2) }

\* The id lists passed to resolve_extras.
IdLists ==
    UNION { [1..n -> { "weather", "signal", "launcher" }] : n \in 0..MaxIds }

\* A core app that shares its id with the free app WEATHER.
WEATHER_CORE == AppDefinition("weather", "org.core.weather", "fdroid", 50)

\* Catalogs for get_app: any of two apps in each partition, "weather" in any
\* of the three with a definition of its own in each.
LookupCatalogs ==
    { [loaded |-> TRUE, core_apps |-> Seconds(core),
       extras_free |-> Seconds(free), extras_non_free |-> Seconds(non_free)] :
        core \in SubListsUpTo(<<LAUNCHER, WEATHER_CORE>>, 2),
        free \in SubListsUpTo(<<CAMERA, WEATHER>>, 2),
        non_free \in SubListsUpTo(<<SIGNAL, WEATHER_PRO>>, 2) }

\* The ids asked of get_app.
LookupIds == { "launcher", "camera", "weather", "signal", "nonexistent" }

\* Core apps with equal and with different priorities.
KEYBOARD == AppDefinition("keyboard", "org.futo.inputmethod.latin", "fdroid", 5)
MESSAGING == AppDefinition("messaging", "org.fossify.messages", "fdroid", 1)

\* Catalogs for get_core_apps_sorted: core_apps holds at most MaxList of four
\* apps, two of priority 1 and two of priority 5, in any insertion order.
CoreCatalogs ==
    { [loaded |-> TRUE, core_apps |-> core, extras_free |-> <<>>,
       extras_non_free |-> <<>>] :
        core \in { apps \in UNION { [1..n -> { LAUNCHER, DIALER, KEYBOARD,
                                               MESSAGING }] :
                                    n \in 0..MaxList } :
                     \A i, j \in DOMAIN apps : apps[i] = apps[j] => i = j } }

\* A filled AppsCatalog before one of its methods is called: resolve_extras
\* with its two id lists, get_app, or get_core_apps_sorted.
InitCatalog ==
    /\ events = <<>>
    /\ calls = <<>>
    /\ config = ConfigWith(FALSE)
    /\ profile = NoProfile
    /\ adb = NoADB
    /\ \/ /\ pc = <<"resolve_extras", "not_started">>
          /\ catalog \in ExtrasCatalogs
          /\ \E free_ids \in IdLists, non_free_ids \in IdLists :
                choices = [UserChoices EXCEPT
                              !.selected_extras_free = free_ids,
                              !.selected_extras_non_free = non_free_ids]
       \/ /\ pc = <<"get_app", "not_started">>
          /\ catalog \in LookupCatalogs
          /\ choices = UserChoices
       \/ /\ pc = <<"get_core_apps_sorted", "not_started">>
          /\ catalog \in CoreCatalogs
          /\ choices = UserChoices
    /\ result = WorkflowResult
    /\ returned = [done |-> FALSE]
    /\ remover = NoRemover
    /\ p8 = NoP8
    /\ faults = <<>>
    /\ raised = NoException

\* catalog.resolve_extras(free_ids, non_free_ids): the list is returned, or
\* AppNotFoundError is raised to the caller and nothing is returned.
CallResolveExtras ==
    /\ pc = <<"resolve_extras", "not_started">>
    /\ LET extras == ResolveExtras(catalog, choices.selected_extras_free,
                                   choices.selected_extras_non_free)
       IN IF extras.ok
          THEN /\ returned' = [done |-> TRUE, value |-> extras.apps]
               /\ pc' = <<"resolve_extras", "returned">>
               /\ UNCHANGED raised
          ELSE /\ raised' = extras.error
               /\ pc' = <<"resolve_extras", "raised">>
               /\ UNCHANGED returned
    /\ calls' = Append(calls, Call("resolve_extras",
                                   <<choices.selected_extras_free,
                                     choices.selected_extras_non_free>>))
    /\ UNCHANGED <<events, config, profile, catalog, adb, choices, result,
                   remover, p8, faults>>

\* Fault injection: the free partition is searched before the core one.
GetAppFreeFirst(c, app_id) ==
    IF HasId(c.extras_free, app_id)
    THEN [ok |-> TRUE, app |-> ById(c.extras_free, app_id)]
    ELSE IF HasId(c.core_apps, app_id)
    THEN [ok |-> TRUE, app |-> ById(c.core_apps, app_id)]
    ELSE IF HasId(c.extras_non_free, app_id)
    THEN [ok |-> TRUE, app |-> ById(c.extras_non_free, app_id)]
    ELSE [ok |-> FALSE,
          error |-> Exc("AppNotFoundError",
                        <<"App not found", app_id, "catalog">>)]

\* AppsCatalog.get_app(app_id): core, then free extras, then non-free
\* extras; AppNotFoundError(app_id) if none declares the id.
GetApp(c, app_id) ==
    IF HasId(c.core_apps, app_id)
    THEN [ok |-> TRUE, app |-> ById(c.core_apps, app_id)]
    ELSE IF HasId(c.extras_free, app_id)
    THEN [ok |-> TRUE, app |-> ById(c.extras_free, app_id)]
    ELSE IF HasId(c.extras_non_free, app_id)
    THEN [ok |-> TRUE, app |-> ById(c.extras_non_free, app_id)]
    ELSE [ok |-> FALSE,
          error |-> Exc("AppNotFoundError",
                        <<"App not found", app_id, "catalog">>)]

\* catalog.get_app(app_id) for every id asked.
CallGetApp ==
    /\ pc = <<"get_app", "not_started">>
    /\ \E app_id \in LookupIds :
          /\ calls' = Append(calls, Call("get_app", app_id))
          /\ LET found == GetApp(catalog, app_id)
             IN IF found.ok
                THEN /\ returned' = [done |-> TRUE, value |-> found.app]
                     /\ pc' = <<"get_app", "returned">>
                     /\ UNCHANGED raised
                ELSE /\ raised' = found.error
                     /\ pc' = <<"get_app", "raised">>
                     /\ UNCHANGED returned
    /\ UNCHANGED <<events, config, profile, catalog, adb, choices, result,
                   remover, p8, faults>>

\* catalog.get_core_apps_sorted().
CallGetCoreAppsSorted ==
    /\ pc = <<"get_core_apps_sorted", "not_started">>
    /\ calls' = Append(calls, Call("get_core_apps_sorted", ""))
    /\ returned' = [done |-> TRUE, value |-> GetCoreAppsSorted(catalog)]
    /\ pc' = <<"get_core_apps_sorted", "returned">>
    /\ UNCHANGED <<events, config, profile, catalog, adb, choices, result,
                   remover, p8, faults, raised>>

NextCatalog ==
    \/ CallResolveExtras
    \/ CallGetApp
    \/ CallGetCoreAppsSorted

SpecCatalog == InitCatalog /\ [][NextCatalog]_vars

\* ------------------------------------------ ConfigurationController.configure

\* The fields of the WorkflowConfig dataclass: the keywords its generated
\* __init__ accepts.
WorkflowConfigFields ==
    { "profile_path", "project_root", "dry_run", "non_interactive",
      "download_dir" }

\* The keywords configure passes to WorkflowConfig(...).
ConfigureKeywords ==
    { "profile_path", "project_root", "dry_run", "interactive", "download_dir",
      "enable_browser", "enable_play_store", "keep_vendor_camera",
      "install_extras" }

\* The arguments of configure a caller chooses: the flags, the extras list
\* (None as NONE) and whether each callback is supplied.
ConfigureArguments ==
    [dry_run : BOOLEAN, interactive : BOOLEAN, enable_browser : BOOLEAN,
     enable_play_store : BOOLEAN, keep_vendor_camera : BOOLEAN,
     install_extras : { NONE, <<>>, <<"weather">> },
     camera_choice_callback : BOOLEAN, extras_choice_callback : BOOLEAN]

\* gen = controller.configure(...) before the first next(gen); config holds
\* the arguments.
InitController ==
    /\ pc = <<"configure", "not_started">>
    /\ events = <<>>
    /\ calls = <<>>
    /\ config \in ConfigureArguments
    /\ profile = NoProfile
    /\ catalog = NoCatalog
    /\ adb = NoADB
    /\ choices = UserChoices
    /\ result = WorkflowResult
    /\ returned = [done |-> FALSE]
    /\ remover = NoRemover
    /\ p8 = NoP8
    /\ faults = <<>>
    /\ raised = NoException

\* The first next() on configure: WorkflowConfig(...) is built from the
\* keywords; a keyword the dataclass does not declare makes its __init__
\* raise TypeError, which leaves the generator. Otherwise the workflow is
\* built and configure delegates to execute (yield from).
Configure ==
    /\ pc = <<"configure", "not_started">>
    /\ calls' = Append(calls, Call("WorkflowConfig", ConfigureKeywords))
    /\ IF ConfigureKeywords \subseteq WorkflowConfigFields
       THEN /\ config' = [dry_run |-> config.dry_run,
                          non_interactive |-> FALSE,
                          camera_choice_callback |->
                              config.camera_choice_callback,
                          extras_choice_callback |->
                              config.extras_choice_callback]
            /\ pc' = <<"execute", "not_started">>
            /\ UNCHANGED raised
       ELSE /\ raised' = Exc("TypeError",
                             <<"__init__() got an unexpected keyword argument",
                               CHOOSE k \in ConfigureKeywords :
                                   k \notin WorkflowConfigFields>>)
            /\ pc' = <<"configure", "raised">>
            /\ UNCHANGED config
    /\ UNCHANGED <<events, profile, catalog, adb, choices, result, returned,
                   remover, p8, faults>>

NextController == Configure

SpecController == InitController /\ [][NextController]_vars

\* --------------------------------- the classification of an uninstall result

\* Texts are lists of characters, so that lower() and `in` are computed.
UPPERCASE ==
    <<"A", "B", "C", "D", "E", "F", "G", "H", "I", "J", "K", "L", "M", "N",
    "O", "P", "Q", "R", "S", "T", "U", "V", "W", "X", "Y", "Z">>

LOWERCASE ==
    <<"a", "b", "c", "d", "e", "f", "g", "h", "i", "j", "k", "l", "m", "n",
    "o", "p", "q", "r", "s", "t", "u", "v", "w", "x", "y", "z">>

\* str.lower().
Lower(text) ==
    [i \in 1..Len(text) |->
        IF \E k \in DOMAIN UPPERCASE : UPPERCASE[k] = text[i]
        THEN LOWERCASE[CHOOSE k \in DOMAIN UPPERCASE : UPPERCASE[k] = text[i]]
        ELSE text[i]]

\* needle in text, for strings.
In(needle, text) ==
    \E i \in 1..(Len(text) - Len(needle) + 1) :
        SubSeq(text, i, i + Len(needle) - 1) = needle

\* a or b, for strings.
Or(a, b) == IF a # <<>> THEN a ELSE b

SUCCESS_MARKER ==
    <<"s", "u", "c", "c", "e", "s", "s">>
NOT_INSTALLED_MARKER ==
    <<"n", "o", "t", " ", "i", "n", "s", "t", "a", "l", "l", "e", "d">>
POLICY_MARKER ==
    <<"d", "e", "v", "i", "c", "e", " ", "p", "o", "l", "i", "c", "y", " ",
    "m", "a", "n", "a", "g", "e", "r">>
ADMIN_MARKER ==
    <<"a", "d", "m", "i", "n">>
PERMISSION_MARKER ==
    <<"p", "e", "r", "m", "i", "s", "s", "i", "o", "n">>
FAILURE_MARKER ==
    <<"f", "a", "i", "l", "u", "r", "e">>

REASON_NOT_INSTALLED ==
    <<"P", "a", "c", "k", "a", "g", "e", " ", "n", "o", "t", " ", "i", "n",
    "s", "t", "a", "l", "l", "e", "d">>
REASON_ADMIN ==
    <<"P", "a", "c", "k", "a", "g", "e", " ", "i", "s", " ", "a", " ", "d",
    "e", "v", "i", "c", "e", " ", "a", "d", "m", "i", "n", "i", "s", "t",
    "r", "a", "t", "o", "r">>
REASON_PERMISSION ==
    <<"P", "e", "r", "m", "i", "s", "s", "i", "o", "n", " ", "d", "e", "n",
    "i", "e", "d">>
REASON_PREFIX ==
    <<"U", "n", "i", "n", "s", "t", "a", "l", "l", " ", "f", "a", "i", "l",
    "e", "d", ":", " ">>
REASON_UNKNOWN ==
    <<"U", "n", "k", "n", "o", "w", "n", " ", "e", "r", "r", "o", "r">>

TEXT_SUCCESS ==
    <<"S", "u", "c", "c", "e", "s", "s">>
TEXT_SUCCESS_UPPER ==
    <<"S", "U", "C", "C", "E", "S", "S">>
TEXT_FAILURE ==
    <<"F", "a", "i", "l", "u", "r", "e">>
TEXT_NOT_INSTALLED ==
    <<"n", "o", "t", " ", "i", "n", "s", "t", "a", "l", "l", "e", "d">>
TEXT_ADMIN ==
    <<"A", "d", "m", "i", "n">>
TEXT_PERMISSION ==
    <<"P", "e", "r", "m", "i", "s", "s", "i", "o", "n">>
TEXT_OTHER ==
    <<"e", "r", "r", "o", "r">>

\* PackageRemover._categorize_failure(error_msg).
CategorizeFailure(error_msg) ==
    LET error_lower == Lower(error_msg)
    IN IF In(NOT_INSTALLED_MARKER, error_lower) THEN REASON_NOT_INSTALLED
       ELSE IF In(POLICY_MARKER, error_lower) \/ In(ADMIN_MARKER, error_lower)
       THEN REASON_ADMIN
       ELSE IF In(PERMISSION_MARKER, error_lower) THEN REASON_PERMISSION
       ELSE IF In(FAILURE_MARKER, error_lower) THEN REASON_PREFIX \o error_msg
       ELSE Or(error_msg, REASON_UNKNOWN)

\* ADBResult(returncode, stdout, stderr) with its three fields.
ADBResultOf(returncode, stdout, stderr) ==
    [returncode |-> returncode, stdout |-> stdout, stderr |-> stderr]

\* Fault injection: the marker is looked for without lower().
RemovalSucceededCaseSensitive(r) ==
    Success(r) \/ In(SUCCESS_MARKER, r.stdout)

\* result.success or "success" in result.stdout.lower().
RemovalSucceeded(r) == Success(r) \/ In(SUCCESS_MARKER, Lower(r.stdout))

\* The texts pm and adb print.
Texts ==
    { <<>>, TEXT_SUCCESS, TEXT_SUCCESS_UPPER, TEXT_FAILURE, TEXT_NOT_INSTALLED,
      TEXT_ADMIN, TEXT_PERMISSION, TEXT_OTHER }

\* What a MagicMock's uninstall_package.return_value is scripted to be: the
\* three fields vary independently.
ScriptedResults ==
    { ADBResultOf(rc, out, err) :
        rc \in { 0, 1 },
        out \in { <<>>, TEXT_SUCCESS, TEXT_SUCCESS_UPPER, TEXT_FAILURE },
        err \in Texts \ { TEXT_SUCCESS_UPPER, TEXT_OTHER } }

\* What ADBDevice._shell does with pm uninstall: it returns pm's output or
\* raises ADBCommandError(returncode, error).
ShellOutcomes ==
    { [raised |-> FALSE, returncode |-> 0, text |-> t] : t \in Texts }
    \cup { [raised |-> TRUE, returncode |-> rc, text |-> t] :
             rc \in { 1, 255 }, t \in Texts }

\* ADBDevice.uninstall_package on the outcome of _shell.
UninstallPackage(o) ==
    IF o.raised
    THEN ADBResultOf(o.returncode, <<>>, o.text)
    ELSE LET success == In(SUCCESS_MARKER, Lower(o.text))
         IN ADBResultOf(IF success THEN 0 ELSE 1, o.text,
                        IF success THEN <<>> ELSE o.text)

\* A real PackageRemover over a one-entry list, suspended after
\* PACKAGE_REMOVAL_STARTED, on a mock with a scripted return value or on an
\* ADBDevice whose shell has the given outcome.
InitClassify ==
    /\ pc = <<"remove_packages", "PACKAGE_REMOVAL_STARTED">>
    /\ events = << PackageEvent("PACKAGE_REMOVAL_STARTED",
                                PackageToRemove(BIXBY, "remove", NONE)) >>
    /\ calls = << Call("list_packages", "") >>
    /\ config = ConfigWith(FALSE)
    /\ profile = NoProfile
    /\ catalog = NoCatalog
    /\ \/ \E rv \in ScriptedResults :
             adb = ("return_value" :> rv) @@ MockADB({ BIXBY })
       \/ \E o \in ShellOutcomes :
             adb = ("shell" :> o)
                   @@ [MockADB({ BIXBY }) EXCEPT !.mock = FALSE]
    /\ choices = UserChoices
    /\ result = WorkflowResult
    /\ returned = [done |-> FALSE]
    /\ remover = [NoRemover EXCEPT
                     !.packages = << PackageToRemove(BIXBY, "remove", NONE) >>,
                     !.installed = { BIXBY }, !.i = 1, !.caller = "direct"]
    /\ p8 = NoP8
    /\ faults = <<>>
    /\ raised = NoException

\* remove_packages resumed after PACKAGE_REMOVAL_STARTED in a real run:
\* uninstall_package is called and its result classified; a failure's reason
\* comes from result.stderr or result.stdout.
RemoverClassify ==
    /\ pc = <<"remove_packages", "PACKAGE_REMOVAL_STARTED">>
    /\ LET pkg == remover.packages[remover.i]
           r == IF adb.mock THEN adb.return_value
                ELSE UninstallPackage(adb.shell)
           type == IF RemovalSucceeded(r) THEN "PACKAGE_REMOVED"
                   ELSE "PACKAGE_REMOVAL_FAILED"
           reason == IF RemovalSucceeded(r) THEN <<>>
                     ELSE CategorizeFailure(Or(r.stderr, r.stdout))
       IN /\ calls' = Append(calls, Call("uninstall_package", pkg.id))
          /\ remover' = [remover EXCEPT !.result = r]
          /\ Yield(("reason" :> reason) @@ PackageEvent(type, pkg),
                   <<"remove_packages", type>>)
    /\ UNCHANGED <<config, profile, catalog, adb, choices, result, returned,
                   p8, faults>>

NextClassify == RemoverClassify

SpecClassify == InitClassify /\ [][NextClassify]_vars

\* ---------------------------------------------------------------- properties

\* The positions of the events of a type in the stream so far.
At(type) == { i \in DOMAIN events : events[i].type = type }

Emitted(type) == At(type) # {}

\* The positions of the PHASE_STARTED / PHASE_COMPLETED events of phase n.
PhaseEvents(type, n) == { i \in At(type) : events[i].phase_number = n }

Last(s) == s[Len(s)]

\* The transport methods that change the device.
MutatingCalls ==
    { "uninstall_package", "install_apk" } \cup { RoleMethods(r) : r \in RoleIds }

Called(ops) == \E i \in DOMAIN calls : calls[i].op \in ops

\* C1: the PHASE_STARTED events of a run carry the numbers 1, 2, 3, ... in
\* this order, none skipped or repeated, and PHASE_STARTED of phase n + 1 is
\* emitted only after PHASE_COMPLETED of phase n.
C1_PhasesInOrder ==
    LET started == SelectSeq(events, LAMBDA e : e.type = "PHASE_STARTED")
    IN /\ \A n \in DOMAIN started : started[n].phase_number = n
       /\ \A i \in DOMAIN events :
             (events[i].type = "PHASE_STARTED" /\ events[i].phase_number > 1) =>
                \E h \in 1..(i - 1) :
                    /\ events[h].type = "PHASE_COMPLETED"
                    /\ events[h].phase_number = events[i].phase_number - 1

\* A run in which all eight phases were started.
C1_Witness == Cardinality(At("PHASE_STARTED")) = TOTAL_PHASES

C3_StreamShape ==
    returned.done =>
        /\ events[1].type = "WORKFLOW_STARTED"
        /\ Cardinality(At("WORKFLOW_COMPLETED") \cup At("WORKFLOW_FAILED")) = 1
        /\ Last(events).type \in { "WORKFLOW_COMPLETED", "WORKFLOW_FAILED" }
        /\ returned.value.success <=> Emitted("WORKFLOW_COMPLETED")
        /\ Emitted("WORKFLOW_COMPLETED") <=>
              \A n \in 1..TOTAL_PHASES : PhaseEvents("PHASE_COMPLETED", n) # {}

\* A run that returned success after a failed role assignment.
C3_Witness ==
    /\ returned.done
    /\ returned.value.success
    /\ Emitted("DEFAULT_APP_FAILED")

\* The failures of one item (a package, a download, an install, a role).
PerItemFailures ==
    { "uninstall_failed", "download_failed", "index_fetch_failed",
      "checksum_mismatch", "install_failed", "role_failed" }

\* The extras selected in phase 6 are all declared by the catalog.
SelectionResolves ==
    /\ \A i \in DOMAIN choices.selected_extras_free :
          HasId(catalog.extras_free, choices.selected_extras_free[i])
    /\ \A i \in DOMAIN choices.selected_extras_non_free :
          HasId(catalog.extras_non_free, choices.selected_extras_non_free[i])

\* C4: a run whose collaborators produced only per-item failures (failed
\* uninstalls, downloads, installs, role assignments) goes through phases 7
\* and 8, ends with WORKFLOW_COMPLETED and returns success = True.
C4_PerItemFailuresAbsorbed ==
    (/\ returned.done
     /\ faults # <<>>
     /\ \A i \in DOMAIN faults : faults[i] \in PerItemFailures
     /\ SelectionResolves)
    => /\ returned.value.success
       /\ Last(events).type = "WORKFLOW_COMPLETED"
       /\ PhaseEvents("PHASE_COMPLETED", 7) # {}
       /\ PhaseEvents("PHASE_COMPLETED", 8) # {}

\* The events of the work on the device and of the downloads.
WorkEvents ==
    { "PACKAGE_NOT_INSTALLED", "PACKAGE_REMOVAL_SKIPPED",
      "PACKAGE_REMOVAL_STARTED", "PACKAGE_REMOVED", "PACKAGE_REMOVAL_FAILED",
      "DOWNLOAD_STARTED", "DOWNLOAD_PROGRESS", "DOWNLOAD_COMPLETED",
      "DOWNLOAD_FAILED", "INSTALL_STARTED", "INSTALL_COMPLETED",
      "INSTALL_FAILED", "DEFAULT_APP_SET", "DEFAULT_APP_FAILED" }

\* The generator is suspended at WORKFLOW_FAILED or returned after it, the
\* result marked failed.
Aborted ==
    /\ pc \in { <<"execute", "WORKFLOW_FAILED">>, <<"execute", "returned">> }
    /\ Last(events).type = "WORKFLOW_FAILED"
    /\ result.success = FALSE

\* C5: no mutating transport call is made and no removal, download, install
\* or default-app event is emitted unless DEVICE_VALIDATED was emitted before;
\* once phase 4 has looked at a connected model that does not match the
\* profile's pattern, the run is aborted in phase 4 with DeviceMismatchError.
C5_NothingBeforeValidation ==
    /\ Called(MutatingCalls) => Emitted("DEVICE_VALIDATED")
    /\ \A i \in DOMAIN events :
          events[i].type \in WorkEvents =>
             \E h \in 1..(i - 1) : events[h].type = "DEVICE_VALIDATED"
    /\ (/\ PhaseEvents("PHASE_STARTED", 4) # {}
        /\ pc # <<"_phase_validate_device", "PHASE_STARTED">>
        /\ ~FnMatch(adb.model, profile.model_pattern))
       => /\ Aborted
          /\ raised.cls = "DeviceMismatchError"
          /\ PhaseEvents("PHASE_COMPLETED", 4) = {}
          /\ PhaseEvents("PHASE_STARTED", 5) = {}
          /\ ~Emitted("DEVICE_VALIDATED")

\* A run that returned after the SM-S911U was refused by the SM-S921* profile.
C5_Witness ==
    /\ returned.done
    /\ adb.connected
    /\ adb.model = "SM-S911U"
    /\ profile.model_pattern = "SM-S921*"

\* C6: once a catalog is loaded that lacks, in the matching partition, an id
\* of the profile's extras_free or extras_non_free, the run is aborted in
\* phase 2 with CriticalConfigurationError: the transport is never created or
\* connected and no device call is made.
C6_UndeclaredExtrasAbortPhase2 ==
    (/\ profile.loaded
     /\ catalog.loaded
     /\ \/ \E i \in DOMAIN profile.extras_free :
              ~HasId(catalog.extras_free, profile.extras_free[i])
        \/ \E i \in DOMAIN profile.extras_non_free :
              ~HasId(catalog.extras_non_free, profile.extras_non_free[i]))
    => /\ Aborted
       /\ raised.cls = "CriticalConfigurationError"
       /\ PhaseEvents("PHASE_COMPLETED", 2) = {}
       /\ PhaseEvents("PHASE_STARTED", 3) = {}
       /\ ~Emitted("DEVICE_CONNECTED")
       /\ ~adb.created
       /\ ~Called(MutatingCalls \cup { "connect", "list_packages" })

\* A run that returned after a profile listed "weather", which the catalog
\* declares as a free extra, among its non-free extras.
C6_Witness ==
    /\ returned.done
    /\ catalog.loaded
    /\ profile.extras_non_free = <<"weather">>

\* The failures by which a download yields no file.
DownloadFailures ==
    { "download_failed", "index_fetch_failed", "checksum_mismatch" }

\* The ids of the apps for which DOWNLOAD_STARTED was emitted and no
\* DOWNLOAD_COMPLETED.
NoFile ==
    { events[i].id : i \in At("DOWNLOAD_STARTED") }
    \ { events[i].id : i \in At("DOWNLOAD_COMPLETED") }

\* C7: in a run whose only failures are downloads that yield no file, no such
\* app gets INSTALL_STARTED or an install_apk call, the run is not aborted,
\* and apps_installed + apps_failed is the number of completed downloads.
C7_FailedDownloadsAreLeftOut ==
    (/\ returned.done
     /\ faults # <<>>
     /\ \A i \in DOMAIN faults : faults[i] \in DownloadFailures
     /\ SelectionResolves)
    => /\ \A i \in At("INSTALL_STARTED") : events[i].id \notin NoFile
       /\ \A i \in DOMAIN calls :
             calls[i].op = "install_apk" => calls[i].arg \notin NoFile
       /\ returned.value.success
       /\ returned.value.apps_installed + returned.value.apps_failed
             = Cardinality(At("DOWNLOAD_COMPLETED"))

\* The remover of phase 7 was handed its package list.
Handed == remover.i >= 1

\* The packages of the profile tagged conditional = "camera".
CameraTagged == { pkg \in Range(profile.packages) : pkg.conditional = "camera" }

\* The run completed without any failure, non-interactively, on a profile of
\* one unconditional package that is installed and one camera-tagged package.
ScenarioA ==
    /\ returned.done
    /\ returned.value.success
    /\ faults = <<>>
    /\ config.non_interactive
    /\ Len(profile.packages) = 2
    /\ \E u, c \in Range(profile.packages) :
          /\ u.conditional = NONE
          /\ u.id \in remover.installed
          /\ c.conditional = "camera"

Returned(op) == calls[CHOOSE i \in DOMAIN calls : calls[i].op = op].arg

ListBuilt == p8.j >= 1

\* The ids of the events of a type, in emission order.
IdsOf(type) ==
    LET es == SelectSeq(events, LAMBDA e : e.type = type)
    IN [i \in 1..Len(es) |-> es[i].id]

IsPrefix(s, t) ==
    /\ Len(s) <= Len(t)
    /\ \A i \in 1..Len(s) : s[i] = t[i]

\* The ids the list is said to hold: the core apps by ascending priority,
\* "camera" exactly when phase 5 resolved to the replacement, the selected
\* free ids, the selected non-free ids.
SaidToDownload ==
    Ids(GetCoreAppsSorted(catalog))
    \o (IF choices.camera_choice = "fossify" THEN <<"camera">> ELSE <<>>)
    \o choices.selected_extras_free
    \o choices.selected_extras_non_free

\* C11: once phase 8 has built its list, the list holds the core apps by
\* ascending installation priority, then the camera app if and only if phase
\* 5 resolved to the replacement, then the selected free extras, then the
\* selected non-free extras, and DOWNLOAD_STARTED is emitted in that order.
C11_DownloadListAndOrder ==
    ListBuilt
    => /\ Ids(p8.apps_to_install) = SaidToDownload
       /\ IsPrefix(IdsOf("DOWNLOAD_STARTED"), SaidToDownload)

\* The statement of C11 restricted to catalogs whose free extras declare
\* "camera": it holds, so the undeclared camera app is the only divergence.
C11_WhenCameraDeclared ==
    (ListBuilt /\ HasId(catalog.extras_free, "camera"))
    => /\ Ids(p8.apps_to_install) = SaidToDownload
       /\ IsPrefix(IdsOf("DOWNLOAD_STARTED"), SaidToDownload)

\* --------------------------------------------------------------- claim C12

\* The number of entries of the filtered removal list that are installed and
\* not Knox-protected.
Removable ==
    Cardinality({ i \in DOMAIN remover.packages :
                    /\ remover.packages[i].id \in remover.installed
                    /\ remover.packages[i].id \notin KNOX_PROTECTED_PACKAGES })

\* C12: a dry run never calls uninstall_package, install_apk or a
\* set_default_* method, and a dry run that completes reports every installed
\* non-Knox package of the removal list as removed and none as failed, every
\* downloaded app as installed and none as failed, and DEFAULT_APP_SET and
\* no DEFAULT_APP_FAILED for every role app of the list.
C12_DryRunTouchesNothing ==
    config.dry_run
    => /\ ~Called(MutatingCalls)
       /\ (returned.done /\ returned.value.success)
          => /\ returned.value.packages_removed = Removable
             /\ returned.value.packages_failed = 0
             /\ returned.value.apps_installed = Len(p8.downloaded)
             /\ Len(p8.downloaded) = Cardinality(At("DOWNLOAD_COMPLETED"))
             /\ returned.value.apps_failed = 0
             /\ ~Emitted("DEFAULT_APP_FAILED")
             /\ \A i \in DOMAIN p8.apps_to_install :
                   p8.apps_to_install[i].id \in RoleIds
                   => \E h \in At("DEFAULT_APP_SET") :
                         events[h].id = p8.apps_to_install[i].id

\* A completed dry run that reported a package removed, an app installed and
\* a role set.
C12_Witness ==
    /\ config.dry_run
    /\ returned.done /\ returned.value.success
    /\ returned.value.packages_removed >= 1
    /\ returned.value.apps_installed >= 1
    /\ Emitted("DEFAULT_APP_SET")

\* --------------------------------------------------------------- claim C13

\* remove_packages returned to its direct caller; the tuple it returned is
\* <<remover.removed, remover.skipped, remover.failed>>.
RemoverReturned == pc = <<"remove_packages", "returned">>

\* The events that end the handling of one list entry.
RemovalOutcomes ==
    { "PACKAGE_NOT_INSTALLED", "PACKAGE_REMOVAL_SKIPPED", "PACKAGE_REMOVED",
      "PACKAGE_REMOVAL_FAILED" }

\* The outcome events in emission order.
OutcomeEvents == SelectSeq(events, LAMBDA e : e.type \in RemovalOutcomes)

\* C13: when remove_packages returns, removed + skipped + failed is the
\* length of the input list, and the outcome events are one per input entry,
\* in input order, each carrying its entry's id.
C13_CountsPartitionTheList ==
    RemoverReturned
    => /\ remover.removed + remover.skipped + remover.failed
             = Len(remover.packages)
       /\ Len(OutcomeEvents) = Len(remover.packages)
       /\ \A i \in DOMAIN remover.packages :
             OutcomeEvents[i].id = remover.packages[i].id

\* A real run returned from a list of three entries, one of them a repeated
\* id, with one entry removed, one skipped and one failed.
C13_Witness ==
    /\ RemoverReturned
    /\ ~config.dry_run
    /\ Len(remover.packages) = MaxList
    /\ \E i, j \in DOMAIN remover.packages :
          i # j /\ remover.packages[i].id = remover.packages[j].id
    /\ remover.removed >= 1 /\ remover.skipped >= 1 /\ remover.failed >= 1

\* --------------------------------------------------------------- claim C14

\* The list entries whose id the transport's list_packages does not hold.
AbsentEntries ==
    { i \in DOMAIN remover.packages :
        remover.packages[i].id \notin adb.packages }

\* C14: a package whose id is not in the installed snapshot, Knox-protected
\* or not, yields PACKAGE_NOT_INSTALLED and no other event, is never passed
\* to uninstall_package, and counts as skipped and neither as removed nor as
\* failed.
C14_NotInstalledComesFirst ==
    /\ \A h \in DOMAIN events :
          events[h].id \notin adb.packages
          => events[h].type = "PACKAGE_NOT_INSTALLED"
    /\ \A i \in AbsentEntries :
          i <= Len(OutcomeEvents)
          => OutcomeEvents[i].type = "PACKAGE_NOT_INSTALLED"
    /\ \A h \in DOMAIN calls :
          calls[h].op = "uninstall_package" => calls[h].arg \in adb.packages
    /\ RemoverReturned
       => /\ remover.skipped >= Cardinality(AbsentEntries)
          /\ remover.removed + remover.failed
                <= Len(remover.packages) - Cardinality(AbsentEntries)

\* A real run returned after PACKAGE_NOT_INSTALLED for a Knox-protected id
\* the snapshot does not hold.
C14_Witness ==
    /\ RemoverReturned
    /\ ~config.dry_run
    /\ SECURE_FOLDER \in KNOX_PROTECTED_PACKAGES
    /\ SECURE_FOLDER \notin adb.packages
    /\ \E h \in At("PACKAGE_NOT_INSTALLED") : events[h].id = SECURE_FOLDER
    /\ remover.skipped >= 1

\* --------------------------------------------------------------- claim C15

\* The list entries whose id is Knox-protected and in the snapshot.
KnoxEntries ==
    { i \in DOMAIN remover.packages :
        /\ remover.packages[i].id \in KNOX_PROTECTED_PACKAGES
        /\ remover.packages[i].id \in adb.packages }

\* C15: in dry and real runs alike, a Knox-protected package that is
\* installed yields PACKAGE_REMOVAL_SKIPPED and no other event (so no
\* PACKAGE_REMOVAL_STARTED), is never passed to uninstall_package, and counts
\* as skipped and neither as removed nor as failed.
C15_KnoxIsSkipped ==
    /\ \A h \in DOMAIN events :
          (events[h].id \in KNOX_PROTECTED_PACKAGES
           /\ events[h].id \in adb.packages)
          => events[h].type = "PACKAGE_REMOVAL_SKIPPED"
    /\ \A i \in KnoxEntries :
          i <= Len(OutcomeEvents)
          => OutcomeEvents[i].type = "PACKAGE_REMOVAL_SKIPPED"
    /\ \A h \in DOMAIN calls :
          calls[h].op = "uninstall_package"
          => calls[h].arg \notin KNOX_PROTECTED_PACKAGES
    /\ RemoverReturned
       => /\ remover.skipped >= Cardinality(KnoxEntries)
          /\ remover.removed + remover.failed
                <= Len(remover.packages) - Cardinality(KnoxEntries)

\* A dry run returned after it skipped an installed Knox-protected package
\* and reported another package removed.
C15_Witness ==
    /\ RemoverReturned
    /\ config.dry_run
    /\ SECURE_FOLDER \in adb.packages
    /\ \E h \in At("PACKAGE_REMOVAL_SKIPPED") : events[h].id = SECURE_FOLDER
    /\ Emitted("PACKAGE_REMOVED")
    /\ remover.skipped >= 1

\* --------------------------------------------------------------- claim C16

\* The ids of the apps installed in this run: downloaded and reported by
\* INSTALL_COMPLETED.
InstalledIds ==
    { events[i].id : i \in At("DOWNLOAD_COMPLETED") }
    \cap { events[i].id : i \in At("INSTALL_COMPLETED") }

\* The role events of set_default_apps.
RoleEvents == At("DEFAULT_APP_SET") \cup At("DEFAULT_APP_FAILED")

C16_RolesOnlyForListedApps ==
    \A h \in RoleEvents :
       /\ events[h].id \in RoleIds
       /\ events[h].id \in Range(Ids(p8.apps_to_install))

\* --------------------------------------------------------------- claim C17

\* get_packages_to_remove returned for the choices given as the set of tags
\* mapped to True.
FilteredFor(conditional_choices) ==
    /\ pc = <<"get_packages_to_remove", "returned">>
    /\ Last(calls).arg = conditional_choices

\* C17 as stated: get_packages_to_remove({}) returns no tagged package, and
\* get_packages_to_remove({"camera": true}) returns, in profile order,
\* exactly the packages tagged "camera" and the untagged ones.
C17_PackagesByTag ==
    /\ FilteredFor({})
       => \A pkg \in Range(returned.value) : pkg.conditional = NONE
    /\ FilteredFor({ "camera" })
       => returned.value
             = SelectSeq(profile.packages,
                         LAMBDA pkg : pkg.conditional \in { NONE, "camera" })

\* C17, amended: get_packages_to_remove({}) returns no tagged package;
\* get_packages_to_remove({"camera": true}) returns, in profile order,
\* exactly the packages of action "remove" that are tagged "camera" or
\* untagged, none with another tag and none of action "disable"; two
\* packages of action "remove" with the same tag are both returned or both
\* left out.
C17_RemoveActionPackagesByTag ==
    /\ FilteredFor({})
       => \A pkg \in Range(returned.value) : pkg.conditional = NONE
    /\ FilteredFor({ "camera" })
       => /\ returned.value
                = SelectSeq(profile.packages,
                            LAMBDA pkg : /\ pkg.action = "remove"
                                         /\ pkg.conditional
                                               \in { NONE, "camera" })
          /\ \A pkg \in Range(returned.value) :
                pkg.conditional # "browser" /\ pkg.action # "disable"
    /\ pc = <<"get_packages_to_remove", "returned">>
       => \A a, b \in Range(profile.packages) :
             (a.action = "remove" /\ b.action = "remove"
              /\ a.conditional = b.conditional)
             => (a \in Range(returned.value) <=> b \in Range(returned.value))

\* {"camera": true} was applied to a profile with a camera-tagged package of
\* action "remove", a package with another tag and an untagged package of
\* action "remove", and returned the camera package and the untagged one.
C17_Witness ==
    /\ FilteredFor({ "camera" })
    /\ \E i, j, k \in DOMAIN profile.packages :
          /\ i # j
          /\ profile.packages[i].conditional = "camera"
          /\ profile.packages[i].action = "remove"
          /\ profile.packages[j].conditional = "browser"
          /\ profile.packages[k].conditional = NONE
          /\ profile.packages[k].action = "remove"
    /\ Len(returned.value) = 2

\* --------------------------------------------------------------- claim C18

\* The events of install_apps in emission order.
InstallEvents ==
    SelectSeq(events, LAMBDA e : e.type \in { "INSTALL_STARTED",
                                              "INSTALL_COMPLETED",
                                              "INSTALL_FAILED" })

InstallerReturned == pc = <<"install_apps", "returned">>

\* C18: the events of install_apps are, entry by entry in input order,
\* INSTALL_STARTED then one of INSTALL_COMPLETED and INSTALL_FAILED for that
\* entry; when it returns every entry has its pair, whatever failed before
\* it, and installed + failed is the number of entries, installed the number
\* of INSTALL_COMPLETED; in a real run an entry is reported installed exactly
\* when the transport result has return code 0 or its output holds "success"
\* in any case.
C18_InstallEventsAndCounts ==
    /\ \A h \in DOMAIN InstallEvents :
          /\ (h + 1) \div 2 <= Len(p8.downloaded)
          /\ InstallEvents[h].id = p8.downloaded[(h + 1) \div 2].id
          /\ h % 2 = 1 <=> InstallEvents[h].type = "INSTALL_STARTED"
    /\ InstallerReturned
       => /\ Len(InstallEvents) = 2 * Len(p8.downloaded)
          /\ p8.installed + p8.failed = Len(p8.downloaded)
          /\ p8.installed = Cardinality(At("INSTALL_COMPLETED"))
          /\ p8.failed = Cardinality(At("INSTALL_FAILED"))
    /\ (~config.dry_run /\ pc = <<"install_apps", "INSTALL_COMPLETED">>)
       => \/ p8.result.returncode = 0
          \/ p8.result.stdout \in { "Success", "success", "SUCCESS" }
    /\ (~config.dry_run /\ pc = <<"install_apps", "INSTALL_FAILED">>)
       => /\ p8.result.returncode # 0
          /\ p8.result.stdout \notin { "Success", "success", "SUCCESS" }

\* A real run of install_apps returned after a failed entry was followed by
\* an entry reported installed on a non-zero return code whose output holds
\* the marker in upper case.
C18_Witness ==
    /\ InstallerReturned
    /\ ~config.dry_run
    /\ p8.failed >= 1 /\ p8.installed >= 1
    /\ Last(events).type = "INSTALL_COMPLETED"
    /\ p8.result = ADBResult(1, "SUCCESS")
    /\ \E h \in At("INSTALL_FAILED") : h < Len(events)

\* --------------------------------------------------------------- claim C19

\* The role events of set_default_apps in emission order.
RoleEventSeq ==
    SelectSeq(events, LAMBDA e : e.type \in { "DEFAULT_APP_SET",
                                              "DEFAULT_APP_FAILED" })

\* The keys of the input map that are in the role table, in key order.
RoleKeys ==
    SelectSeq(Ids(p8.default_apps),
              LAMBDA id : id \in { "launcher", "dialer", "messaging",
                                   "keyboard", "gallery" })

DefaultsReturned == pc = <<"set_default_apps", "returned">>

\* C19: set_default_apps called directly emits its role events for the keys
\* of the five roles, in key order, one each when it returns; it emits no
\* event and makes no transport call for another key; it returns no value
\* and leaves every field of the WorkflowResult as it was.
C19_OneRoleEventPerRoleKey ==
    pc[1] = "set_default_apps"
    => /\ IsPrefix([h \in DOMAIN RoleEventSeq |-> RoleEventSeq[h].id], RoleKeys)
       /\ DefaultsReturned => Len(RoleEventSeq) = Len(RoleKeys)
       /\ Len(events) = Len(RoleEventSeq)
       /\ \A h \in DOMAIN calls :
             \E a \in Range(p8.default_apps) :
                /\ a.id \in Range(RoleKeys)
                /\ calls[h] = Call(RoleMethods(a.id), a.package_id)
       /\ returned = [done |-> FALSE]
       /\ result = WorkflowResult

\* A real run of set_default_apps returned from a map with a key outside the
\* role table and two role keys, one role set and one failed.
C19_Witness ==
    /\ DefaultsReturned
    /\ ~config.dry_run
    /\ Len(p8.default_apps) = 3
    /\ Len(RoleKeys) = 2
    /\ Emitted("DEFAULT_APP_SET")
    /\ Emitted("DEFAULT_APP_FAILED")

\* --------------------------------------------------------------- claim C20

\* The ids asked for with the partition each is looked up in, free ids first.
Lookups ==
    [i \in 1..Len(choices.selected_extras_free) |->
        [id |-> choices.selected_extras_free[i], partition |-> "extras_free",
         defs |-> catalog.extras_free]]
    \o [i \in 1..Len(choices.selected_extras_non_free) |->
           [id |-> choices.selected_extras_non_free[i],
            partition |-> "extras_non_free",
            defs |-> catalog.extras_non_free]]

\* The definition a lookup finds in its own partition, if any.
Found(l) == { d \in Range(l.defs) : d.id = l.id }

\* C20: resolve_extras returns, for the free ids then the non-free ids in
\* order, the definition each id has in its own partition; if an id is
\* missing from its own partition (present in another or not), it raises
\* AppNotFoundError naming the first such id and its partition, and returns
\* no list.
C20_ResolveExtrasByPartition ==
    pc[1] = "resolve_extras" /\ pc[2] # "not_started"
    => IF \A i \in DOMAIN Lookups : Found(Lookups[i]) # {}
       THEN /\ pc[2] = "returned"
            /\ raised = NoException
            /\ Len(returned.value) = Len(Lookups)
            /\ \A i \in DOMAIN Lookups :
                  returned.value[i] \in Found(Lookups[i])
       ELSE LET first == CHOOSE i \in DOMAIN Lookups :
                            /\ Found(Lookups[i]) = {}
                            /\ \A h \in 1..(i - 1) : Found(Lookups[h]) # {}
            IN /\ pc[2] = "raised"
               /\ returned = [done |-> FALSE]
               /\ raised = Exc("AppNotFoundError",
                               <<"App not found", Lookups[first].id,
                                 Lookups[first].partition>>)

\* resolve_extras raised for "signal" asked as a free id while only the
\* non-free partition declares it, after "weather" resolved.
C20_Witness ==
    /\ pc = <<"resolve_extras", "raised">>
    /\ choices.selected_extras_free = <<"weather", "signal">>
    /\ HasId(catalog.extras_non_free, "signal")
    /\ HasId(catalog.extras_free, "weather")
    /\ raised.str = <<"App not found", "signal", "extras_free">>

\* --------------------------------------------------------------- claim C21

\* The definitions with the id asked of get_app in a partition.
Declared(defs) == { d \in Range(defs) : d.id = Last(calls).arg }

\* C21: get_app returns the core definition of the id if there is one, else
\* the free one, else the non-free one; it raises AppNotFoundError carrying
\* the id, and returns nothing, exactly when no partition declares the id.
C21_GetAppFirstMatch ==
    (pc[1] = "get_app" /\ pc[2] # "not_started")
    => LET first == IF Declared(catalog.core_apps) # {}
                    THEN Declared(catalog.core_apps)
                    ELSE IF Declared(catalog.extras_free) # {}
                    THEN Declared(catalog.extras_free)
                    ELSE Declared(catalog.extras_non_free)
       IN IF first # {}
          THEN /\ pc[2] = "returned"
               /\ returned.done /\ returned.value \in first
               /\ raised = NoException
          ELSE /\ pc[2] = "raised"
               /\ returned = [done |-> FALSE]
               /\ raised.cls = "AppNotFoundError"
               /\ raised.str[2] = Last(calls).arg

\* get_app("weather") returned the core definition from a catalog that
\* declares "weather" in all three partitions.
C21_Witness ==
    /\ pc = <<"get_app", "returned">>
    /\ Last(calls).arg = "weather"
    /\ WEATHER_CORE \in Range(catalog.core_apps)
    /\ WEATHER \in Range(catalog.extras_free)
    /\ WEATHER_PRO \in Range(catalog.extras_non_free)
    /\ returned.value = WEATHER_CORE

\* --------------------------------------------------------------- claim C22

\* The position of a core app in the catalog.
CatalogPosition(app) ==
    CHOOSE i \in DOMAIN catalog.core_apps : catalog.core_apps[i] = app

\* C22: get_core_apps_sorted returns every core app exactly once, by
\* ascending installation_priority, apps of equal priority in catalog order.
C22_CoreSortedStable ==
    pc = <<"get_core_apps_sorted", "returned">>
    => LET sorted == returned.value
       IN /\ Len(sorted) = Len(catalog.core_apps)
          /\ Range(sorted) = Range(catalog.core_apps)
          /\ \A i, j \in DOMAIN sorted :
                i < j
                => \/ sorted[i].installation_priority
                         < sorted[j].installation_priority
                   \/ /\ sorted[i].installation_priority
                            = sorted[j].installation_priority
                      /\ CatalogPosition(sorted[i]) < CatalogPosition(sorted[j])

\* Three core apps were sorted: the catalog holds two apps of priority 5
\* before one of priority 1, the result starts with the app of priority 1.
C22_Witness ==
    /\ pc = <<"get_core_apps_sorted", "returned">>
    /\ catalog.core_apps = <<KEYBOARD, LAUNCHER, DIALER>>
    /\ returned.value = <<DIALER, KEYBOARD, LAUNCHER>>

\* --------------------------------------------------------------- claim C23

\* C23: configure, for every combination of its arguments, does not end
\* with an exception: once driven it is relaying the workflow's events or
\* has returned the workflow's result.
C23_ConfigureRelaysWorkflow ==
    (pc[1] = "configure" => pc[2] = "not_started") /\ raised = NoException

\* --------------------------------------------------------------- claim C24

\* C24: in a non-interactive run the camera choice that CAMERA_CHOICE_MADE
\* reports is the replacement, "fossify".
C24_NonInteractiveResolvesToFossify ==
    (config.non_interactive /\ Emitted("CAMERA_CHOICE_MADE"))
    => choices.camera_choice = "fossify"

\* The download of the DOWNLOAD_STARTED event at index i is still running:
\* download_app is suspended and no later download was started.
DownloadRunning(i) ==
    /\ pc[1] = "download_app"
    /\ \A k \in At("DOWNLOAD_STARTED") : k <= i

\* The download of the DOWNLOAD_STARTED event at index i ended with its own
\* DOWNLOAD_COMPLETED or DOWNLOAD_FAILED, only progress events in between.
DownloadEnded(i) ==
    \E j \in At("DOWNLOAD_COMPLETED") \cup At("DOWNLOAD_FAILED") :
        /\ j > i
        /\ events[j].id = events[i].id
        /\ \A k \in (i + 1)..(j - 1) : events[k].type = "DOWNLOAD_PROGRESS"

\* C25: download_app never raises to its caller: whatever the network, the
\* index or the checksum does, a download that has left download_app emitted
\* DOWNLOAD_STARTED and then ended with DOWNLOAD_COMPLETED or DOWNLOAD_FAILED.
C25_DownloadAppNeverRaises ==
    \A i \in At("DOWNLOAD_STARTED") : DownloadRunning(i) \/ DownloadEnded(i)

\* The profile at hand declares no package with conditional = "camera".
NoCameraPackage ==
    /\ profile.loaded
    /\ \A i \in DOMAIN profile.packages :
           profile.packages[i].conditional # "camera"

\* C26: with a profile that declares no package with conditional = "camera",
\* phase 5 emits PHASE_STARTED and next PHASE_COMPLETED and nothing else: no
\* CAMERA_CHOICE_REQUIRED, no CAMERA_CHOICE_MADE, no call of the camera
\* callback, and camera_choice is empty in every state of the run.
C26_NoCameraPackageNoChoice ==
    NoCameraPackage =>
        /\ ~Emitted("CAMERA_CHOICE_REQUIRED")
        /\ ~Emitted("CAMERA_CHOICE_MADE")
        /\ ~Called({ "camera_choice_callback" })
        /\ choices.camera_choice = ""
        /\ \A i \in At("PHASE_STARTED") :
               (events[i].phase_number = 5 /\ i < Len(events)) =>
                   /\ events[i + 1].type = "PHASE_COMPLETED"
                   /\ events[i + 1].phase_number = 5

\* An interactive run with a camera callback and a profile that declares
\* packages, none of them camera-conditional, ran to its end.
C26_Witness ==
    /\ NoCameraPackage
    /\ profile.packages # <<>>
    /\ config.camera_choice_callback /\ ~config.non_interactive
    /\ returned.done /\ returned.value.success
    /\ \E i \in At("PHASE_COMPLETED") : events[i].phase_number = 5

\* The number of the phase whose code the generator is suspended in (0
\* outside the phases).
RunningPhase ==
    CASE pc[1] \in Range(ExecuteOrder) -> PhaseNumber(pc[1])
      [] pc[1] = "remove_packages" -> 7
      [] pc[1] \in { "download_app", "install_apps", "set_default_apps" } -> 8
      [] OTHER -> 0

\* The phase an event belongs to (0 for the events of execute itself).
EventPhase(e) ==
    CASE e.type \in { "PHASE_STARTED", "PHASE_COMPLETED" } -> e.phase_number
      [] e.type = "DEVICE_CONNECTED" -> 3
      [] e.type = "DEVICE_VALIDATED" -> 4
      [] e.type \in { "CAMERA_CHOICE_REQUIRED", "CAMERA_CHOICE_MADE" } -> 5
      [] e.type \in { "EXTRAS_SELECTION_REQUIRED",
                      "EXTRAS_SELECTION_MADE" } -> 6
      [] e.type \in { "PACKAGE_NOT_INSTALLED", "PACKAGE_REMOVAL_SKIPPED",
                      "PACKAGE_REMOVAL_STARTED", "PACKAGE_REMOVED",
                      "PACKAGE_REMOVAL_FAILED" } -> 7
      [] e.type \in { "DOWNLOAD_STARTED", "DOWNLOAD_PROGRESS",
                      "DOWNLOAD_COMPLETED", "DOWNLOAD_FAILED",
                      "INSTALL_STARTED", "INSTALL_COMPLETED",
                      "INSTALL_FAILED", "DEFAULT_APP_SET",
                      "DEFAULT_APP_FAILED" } -> 8
      [] OTHER -> 0

\* A step in which an error (an Exception) is raised.
ErrorStep == raised = NoException /\ raised' # NoException /\ IsException(raised')

\* C27: a step in which an error is raised while phase n runs finds no
\* PHASE_COMPLETED of phase n and no event of a later phase emitted, and
\* appends one WORKFLOW_FAILED, the first of the run; once WORKFLOW_FAILED was
\* emitted no step emits an event.
C27_FatalErrorEndsTheStream ==
    [][ /\ ErrorStep =>
             /\ RunningPhase \in 1..TOTAL_PHASES
             /\ PhaseEvents("PHASE_COMPLETED", RunningPhase) = {}
             /\ \A i \in DOMAIN events : EventPhase(events[i]) <= RunningPhase
             /\ ~Emitted("WORKFLOW_FAILED")
             /\ Len(events') = Len(events) + 1
             /\ SubSeq(events', 1, Len(events)) = events
             /\ Last(events').type = "WORKFLOW_FAILED"
        /\ Emitted("WORKFLOW_FAILED") => UNCHANGED events ]_vars

\* A run aborted in phase 8 by an error, after a completed download, has
\* returned.
C27_Witness ==
    /\ returned.done
    /\ raised # NoException /\ IsException(raised)
    /\ PhaseEvents("PHASE_STARTED", 8) # {}
    /\ Emitted("DOWNLOAD_COMPLETED")
    /\ Last(events).type = "WORKFLOW_FAILED"

\* The indices of the events of the given types.
AtAny(types) == { i \in DOMAIN events : events[i].type \in types }

RemovalEvents ==
    AtAny({ "PACKAGE_NOT_INSTALLED", "PACKAGE_REMOVAL_SKIPPED",
            "PACKAGE_REMOVAL_STARTED", "PACKAGE_REMOVED",
            "PACKAGE_REMOVAL_FAILED" })

DownloadEvents ==
    AtAny({ "DOWNLOAD_STARTED", "DOWNLOAD_PROGRESS", "DOWNLOAD_COMPLETED",
            "DOWNLOAD_FAILED" })

InstallEventIndices ==
    AtAny({ "INSTALL_STARTED", "INSTALL_COMPLETED", "INSTALL_FAILED" })

DefaultAppEvents == AtAny({ "DEFAULT_APP_SET", "DEFAULT_APP_FAILED" })

\* Every index of before is smaller than every index of after.
Precede(before, after) == \A i \in before, j \in after : i < j

\* The event after the one at index i has one of the types and the same id.
NextIs(i, types) ==
    /\ i < Len(events)
    /\ events[i + 1].type \in types
    /\ events[i + 1].id = events[i].id

\* The download started at index i runs to its end without another event in
\* between: progress events of the same app, then its DOWNLOAD_COMPLETED or
\* DOWNLOAD_FAILED.
DownloadUninterrupted(i) ==
    \E j \in At("DOWNLOAD_COMPLETED") \cup At("DOWNLOAD_FAILED") :
        /\ j > i
        /\ events[j].id = events[i].id
        /\ \A k \in (i + 1)..(j - 1) :
              /\ events[k].type = "DOWNLOAD_PROGRESS"
              /\ events[k].id = events[i].id

\* C28: in a run that completed, every PACKAGE_REMOVAL_STARTED is followed at
\* once by that package's PACKAGE_REMOVED or PACKAGE_REMOVAL_FAILED, every
\* INSTALL_STARTED by that app's INSTALL_COMPLETED or INSTALL_FAILED, every
\* download ends before another event is emitted, and the removal events
\* precede the download events, which precede the install events, which
\* precede the default-app events.
C28_OperationsAreSequential ==
    Emitted("WORKFLOW_COMPLETED") =>
        /\ \A i \in At("PACKAGE_REMOVAL_STARTED") :
              NextIs(i, { "PACKAGE_REMOVED", "PACKAGE_REMOVAL_FAILED" })
        /\ \A i \in At("INSTALL_STARTED") :
              NextIs(i, { "INSTALL_COMPLETED", "INSTALL_FAILED" })
        /\ \A i \in At("DOWNLOAD_STARTED") : DownloadUninterrupted(i)
        /\ \A k \in DownloadEvents \ At("DOWNLOAD_STARTED") :
              \E i \in At("DOWNLOAD_STARTED") :
                  i < k /\ events[i].id = events[k].id
        /\ Precede(RemovalEvents, DownloadEvents)
        /\ Precede(DownloadEvents, InstallEventIndices)
        /\ Precede(InstallEventIndices, DefaultAppEvents)

\* A completed run with a removal, two downloads, one of them failed, an
\* install and a role assignment.
C28_Witness ==
    /\ Emitted("WORKFLOW_COMPLETED")
    /\ Emitted("PACKAGE_REMOVAL_STARTED")
    /\ Cardinality(At("DOWNLOAD_STARTED")) >= 2
    /\ Emitted("DOWNLOAD_PROGRESS")
    /\ Emitted("DOWNLOAD_FAILED")
    /\ Emitted("INSTALL_STARTED")
    /\ DefaultAppEvents # {}

\* A step that makes a transport call op: one call is appended to the calls.
CallStep(op) ==
    /\ Len(calls') = Len(calls) + 1
    /\ SubSeq(calls', 1, Len(calls)) = calls
    /\ Last(calls').op = op

\* The last event delivered to the caller has the given type and id.
Delivered(type, id) ==
    /\ events # <<>>
    /\ Last(events).type = type
    /\ Last(events).id = id

\* C29: the transport is called only inside a pull. A step (one next() of
\* the caller) that calls uninstall_package for a package starts from a state
\* whose last delivered event is that package's PACKAGE_REMOVAL_STARTED, and
\* a step that calls install_apk from one whose last delivered event is that
\* app's INSTALL_STARTED; the step makes that one call and delivers at most
\* one event, so the call lies between the two deliveries. Without a step
\* the calls do not change.
C29_WorkOnlyWhenPulled ==
    [][ /\ Len(calls') <= Len(calls) + 1
        /\ Len(events') <= Len(events) + 1
        /\ CallStep("uninstall_package") =>
              Delivered("PACKAGE_REMOVAL_STARTED", Last(calls').arg)
        /\ CallStep("install_apk") =>
              Delivered("INSTALL_STARTED", Last(calls').arg)
        /\ calls' # calls => CallStep(Last(calls').op) ]_vars

\* A real run called uninstall_package and install_apk and went on to the
\* events after them.
C29_Witness ==
    /\ ~config.dry_run
    /\ Called({ "uninstall_package" })
    /\ Called({ "install_apk" })
    /\ AtAny({ "PACKAGE_REMOVED", "PACKAGE_REMOVAL_FAILED" }) # {}
    /\ AtAny({ "INSTALL_COMPLETED", "INSTALL_FAILED" }) # {}

\* The indices of the calls of op.
CallsOf(op) == { i \in DOMAIN calls : calls[i].op = op }

\* C30: the camera callback and the extras callback are each called at most
\* once in a run, never in a non-interactive run and never before their
\* phase started; a step that calls one starts from a state whose last
\* delivered event is the corresponding REQUIRED event and in which the
\* corresponding MADE event was not emitted.
C30_CallbacksOnceAndInPlace ==
    [][ /\ Cardinality(CallsOf("camera_choice_callback")') <= 1
        /\ Cardinality(CallsOf("extras_choice_callback")') <= 1
        /\ (calls' # calls /\ config.non_interactive) =>
              Last(calls').op \notin { "camera_choice_callback",
                                       "extras_choice_callback" }
        /\ CallStep("camera_choice_callback") =>
              /\ PhaseEvents("PHASE_STARTED", 5) # {}
              /\ Last(events).type = "CAMERA_CHOICE_REQUIRED"
              /\ ~Emitted("CAMERA_CHOICE_MADE")
        /\ CallStep("extras_choice_callback") =>
              /\ PhaseEvents("PHASE_STARTED", 6) # {}
              /\ Last(events).type = "EXTRAS_SELECTION_REQUIRED"
              /\ ~Emitted("EXTRAS_SELECTION_MADE") ]_vars

\* An interactive run in which both callbacks were called and both choices
\* announced.
C30_Witness ==
    /\ CallsOf("camera_choice_callback") # {}
    /\ CallsOf("extras_choice_callback") # {}
    /\ Emitted("CAMERA_CHOICE_MADE")
    /\ Emitted("EXTRAS_SELECTION_MADE")
    /\ returned.done

\* The list entries remove_packages has to attempt: in the installed
\* snapshot and not Knox-protected.
Attempted ==
    SelectSeq(remover.packages,
              LAMBDA pkg : /\ pkg.id \in adb.packages
                           /\ pkg.id \notin KNOX_PROTECTED_PACKAGES)

\* The arguments of the uninstall_package calls, in call order.
UninstallArgs ==
    LET made == SelectSeq(calls, LAMBDA c : c.op = "uninstall_package")
    IN [i \in 1..Len(made) |-> made[i].arg]

\* C31: in a real run the uninstall_package calls made so far are, in list
\* order, the calls for the entries that are installed and not
\* Knox-protected, one per entry, and when remove_packages returns every such
\* entry was called for, whatever the earlier calls reported; each reported
\* failure is counted and has its PACKAGE_REMOVAL_FAILED event, and the
\* entries after it are still processed.
C31_EveryEntryIsAttempted ==
    ~DryRun =>
        /\ IsPrefix(UninstallArgs, Ids(Attempted))
        /\ IsPrefix(IdsOf("PACKAGE_REMOVAL_STARTED"), Ids(Attempted))
        /\ \A i \in DOMAIN IdsOf("PACKAGE_REMOVAL_FAILED") :
              \E k \in DOMAIN Attempted :
                  Attempted[k].id = IdsOf("PACKAGE_REMOVAL_FAILED")[i]
        /\ RemoverReturned =>
              /\ UninstallArgs = Ids(Attempted)
              /\ remover.failed = Len(IdsOf("PACKAGE_REMOVAL_FAILED"))
              /\ remover.failed + remover.removed = Len(Attempted)
              /\ Len(OutcomeEvents) = Len(remover.packages)

\* A real run returned in which the first attempted entry failed and two
\* more entries were attempted after it.
C31_Witness ==
    /\ RemoverReturned
    /\ ~DryRun
    /\ Len(UninstallArgs) = MaxList
    /\ remover.failed >= 1 /\ remover.removed >= 1
    /\ \E i \in At("PACKAGE_REMOVAL_FAILED") :
          \A k \in At("PACKAGE_REMOVAL_STARTED") \ {i - 1} : k > i

\* The texts that hold "success" in some spelling.
TextsWithSuccess == { TEXT_SUCCESS, TEXT_SUCCESS_UPPER }

\* C32: in a real run the attempted package is classified removed exactly
\* when the uninstall result has returncode 0 or its stdout holds "success"
\* in any spelling; otherwise it is classified failed and its
\* PACKAGE_REMOVAL_FAILED event carries a reason that is not empty.
C32_ClassifiedByResult ==
    pc[2] # "PACKAGE_REMOVAL_STARTED" =>
        LET r == remover.result
            e == Last(events)
        IN /\ e.type \in { "PACKAGE_REMOVED", "PACKAGE_REMOVAL_FAILED" }
           /\ e.id = Last(calls).arg
           /\ e.type = "PACKAGE_REMOVED" <=>
                 (r.returncode = 0 \/ r.stdout \in TextsWithSuccess)
           /\ e.type = "PACKAGE_REMOVAL_FAILED" => e.reason # <<>>

\* An uninstall result with a non-zero returncode and nothing printed was
\* classified failed, with the reason of last resort.
C32_Witness ==
    /\ pc = <<"remove_packages", "PACKAGE_REMOVAL_FAILED">>
    /\ remover.result.returncode # 0
    /\ remover.result.stdout = <<>> /\ remover.result.stderr = <<>>
    /\ Last(events).reason = REASON_UNKNOWN

\* The first events of a list entry.
FirstEvents ==
    { "PACKAGE_NOT_INSTALLED", "PACKAGE_REMOVAL_SKIPPED",
      "PACKAGE_REMOVAL_STARTED" }

\* C33: one PackageRemover calls list_packages at most once, however many
\* entries it processes and however often remove_packages is called; the set
\* it got is kept unchanged while the device's own set shrinks, and the
\* installed check of every entry is made against it.
C33_SnapshotTakenOnce ==
    [][ /\ Cardinality(CallsOf("list_packages")') <= 1
        /\ remover.installed_packages # <<>> =>
              remover'.installed_packages = remover.installed_packages
        /\ (/\ remover.installed_packages = <<>>
            /\ remover'.installed_packages # <<>>) =>
              /\ remover'.installed_packages = << adb.packages >>
              /\ CallsOf("list_packages") = {}
              /\ CallsOf("list_packages")' # {}
        /\ (events' # events /\ Last(events').type \in FirstEvents) =>
              /\ remover'.installed_packages # <<>>
              /\ Last(events').type = "PACKAGE_NOT_INSTALLED" <=>
                    Last(events').id \notin remover'.installed_packages[1]
       ]_vars

\* In a second call of remove_packages a package the device no longer lists
\* is found installed in the snapshot and its removal started.
C33_Witness ==
    /\ LaterCalls # {}
    /\ Cardinality(CallsOf("list_packages")) = 1
    /\ BIXBY \notin adb.packages
    /\ pc = <<"remove_packages", "PACKAGE_REMOVAL_STARTED">>
    /\ Last(events).id = BIXBY
    /\ Emitted("PACKAGE_REMOVED")

\* The package counters and the app counters of a WorkflowResult.
PackageCounters(res) ==
    << res.packages_removed, res.packages_skipped, res.packages_failed >>

AppCounters(res) == << res.apps_installed, res.apps_failed >>

\* C34: a step changes camera_choice only while phase 5 runs and the two
\* extras lists only while phase 6 runs, so phases 1 to 4, 7 and 8 leave
\* UserChoices unchanged; a step changes the package counters of the result
\* only while phase 7 runs and the app counters only while phase 8 runs, and
\* as long as phase 7 has not started all counters are zero.
C34_ChoicesAndCountersFrame ==
    [][ /\ choices'.camera_choice # choices.camera_choice => RunningPhase = 5
        /\ << choices'.selected_extras_free,
              choices'.selected_extras_non_free >>
              # << choices.selected_extras_free,
                   choices.selected_extras_non_free >> => RunningPhase = 6
        /\ choices' # choices => RunningPhase \in { 5, 6 }
        /\ PackageCounters(result') # PackageCounters(result) =>
              RunningPhase = 7
        /\ AppCounters(result') # AppCounters(result) => RunningPhase = 8
        /\ PhaseEvents("PHASE_STARTED", 7)' = {} =>
              /\ PackageCounters(result') = << 0, 0, 0 >>
              /\ AppCounters(result') = << 0, 0 >>
       ]_vars

\* A completed run in which both choices were made and all five counters
\* written.
C34_Witness ==
    /\ returned.done /\ returned.value.success
    /\ choices.camera_choice # ""
    /\ choices.selected_extras_free # <<>>
    /\ result.packages_removed >= 1 /\ result.packages_skipped >= 1
    /\ result.apps_installed >= 1 /\ result.apps_failed >= 1

\* C35: in every reachable state camera_choice is the empty string, "stock"
\* or "fossify", whatever the camera callback returns.
C35_CameraChoiceDomain == choices.camera_choice \in { "", "stock", "fossify" }

\* The result agrees with the events emitted so far.
ResultAgreesWithEvents(res) ==
    /\ res.packages_removed = Cardinality(At("PACKAGE_REMOVED"))
    /\ res.packages_failed = Cardinality(At("PACKAGE_REMOVAL_FAILED"))
    /\ res.packages_skipped =
          Cardinality(At("PACKAGE_NOT_INSTALLED"))
          + Cardinality(At("PACKAGE_REMOVAL_SKIPPED"))
    /\ res.apps_installed = Cardinality(At("INSTALL_COMPLETED"))
    /\ res.apps_failed = Cardinality(At("INSTALL_FAILED"))

\* C36: when the stream of a run has ended, completed or failed, the five
\* counters of the returned result are the numbers of the corresponding
\* events.
C36_ResultAgreesAtTheEnd ==
    returned.done => ResultAgreesWithEvents(returned.value)

\* The same for the runs that completed.
C36_InCompletedRuns ==
    (returned.done /\ returned.value.success) =>
        ResultAgreesWithEvents(returned.value)

\* C37: once phase 6 has completed, every selected extras id is declared by
\* the matching partition of the catalog, whichever way the selection was
\* resolved, and no AppNotFoundError is raised in phase 8.
C37_SelectedExtrasResolve ==
    PhaseEvents("PHASE_COMPLETED", 6) # {} =>
        /\ SelectionResolves
        /\ raised.cls # "AppNotFoundError"

\* The same for the selections taken from the profile.
C37_ForProfileDefaults ==
    (PhaseEvents("PHASE_COMPLETED", 6) # {}
     /\ ~Called({ "extras_choice_callback" })) =>
        /\ SelectionResolves
        /\ raised.cls # "AppNotFoundError"

\* Phase 7 handed a camera-conditional package to the remover.
CameraPackageHandedOver ==
    \E i \in DOMAIN remover.packages :
        remover.packages[i].conditional = "camera"

\* C38: whenever a camera-conditional package was handed to the remover in
\* phase 7, the list phase 8 builds holds the camera app, whatever the catalog
\* declares.
C38_CameraReplacementInstalled ==
    (ListBuilt /\ CameraPackageHandedOver) =>
        HasId(p8.apps_to_install, "camera")

\* No element occurs twice in the list.
Distinct(s) == \A i, j \in DOMAIN s : s[i] = s[j] => i = j

\* C39: the list phase 8 builds holds no app twice: every app id gets at most
\* one DOWNLOAD_STARTED and at most one INSTALL_STARTED, and the installer's
\* counters do not exceed the number of distinct apps of the list.
C39_NoAppTwice ==
    ListBuilt =>
        /\ Distinct(Ids(p8.apps_to_install))
        /\ Distinct(IdsOf("DOWNLOAD_STARTED"))
        /\ Distinct(IdsOf("INSTALL_STARTED"))
        /\ result.apps_installed + result.apps_failed
              <= Cardinality(Range(Ids(p8.apps_to_install)))

\* The stream is exhausted: execute returned after WORKFLOW_COMPLETED or
\* WORKFLOW_FAILED, or was left by what a callback raised that is not an
\* Exception.
StreamExhausted ==
    \/ /\ returned.done
       /\ Last(events).type \in { "WORKFLOW_COMPLETED", "WORKFLOW_FAILED" }
    \/ /\ pc = <<"execute", "propagated">>
       /\ ~IsException(raised)

====
